---- MODULE Spec2Model ----
(***************************************************************************)
(* Baseline crash-risk calculator (backend/src/modeling/calculator.py).    *)
(*                                                                         *)
(* Numbers.  The program computes in IEEE doubles; the model computes in   *)
(* decimal fixed point: a quantity q is the integer round(q * S), S = 10^4.*)
(* Units are chosen so that every quantity fits TLC's 32-bit integers:     *)
(*   time            ms      (the program: s)                              *)
(*   neck deflection mm      (the program: m)                              *)
(*   neck stiffness  N/mm    (the program: N/m)                            *)
(*   thorax deflection mm, femur force kN (the units the risk curves take) *)
(* everything else in the program's own unit (m/s, m/s^2, g, kg, N).       *)
(* math.exp, math.log, math.erf, math.sqrt and np.sin are computed by      *)
(* range reduction and series, to about 1e-4.                              *)
(***************************************************************************)
EXTENDS Integers, Sequences, FiniteSets, TLC

\* ------------------------------------------------------------------------
\* Fixed-point arithmetic (the float operations of calculator.py)
\* ------------------------------------------------------------------------

\* Fixed-point scale: 1.0 is S.
S == 10000

Abs(x) == IF x < 0 THEN -x ELSE x

\* The sign of x: -1, 0 or 1
Sign(x) == IF x < 0 THEN -1 ELSE IF x > 0 THEN 1 ELSE 0

Max2(a, b) == IF a >= b THEN a ELSE b

Min2(a, b) == IF a <= b THEN a ELSE b

\* a * b for a, b >= 0, rounded to nearest; limbs keep every partial product
\* below 2^31.
MulNN(a, b) ==
    LET ah == a \div S
        al == a % S
        bh == b \div S
        bl == b % S
    IN  ah * bh * S + ah * bl + al * bh + (al * bl + S \div 2) \div S

\* float multiplication
Mul(a, b) ==
    IF (a < 0) = (b < 0) THEN MulNN(Abs(a), Abs(b)) ELSE -MulNN(Abs(a), Abs(b))

\* a / b for a >= 0, b > 0 by decimal long division (four digits), rounded to
\* nearest; needs 10 * b < 2^31.
DivNN(a, b) ==
    LET q0 == a \div b
        r0 == a % b
        q1 == (r0 * 10) \div b
        r1 == (r0 * 10) % b
        q2 == (r1 * 10) \div b
        r2 == (r1 * 10) % b
        q3 == (r2 * 10) \div b
        r3 == (r2 * 10) % b
        q4 == (r3 * 10) \div b
        r4 == (r3 * 10) % b
    IN  q0 * S + q1 * 1000 + q2 * 100 + q3 * 10 + q4
        + (IF 2 * r4 >= b THEN 1 ELSE 0)

\* float division (b # 0)
Div(a, b) ==
    IF (a < 0) = (b < 0) THEN DivNN(Abs(a), Abs(b)) ELSE -DivNN(Abs(a), Abs(b))

\* Integer square root by Newton's iteration.
RECURSIVE ISqrtIter(_, _)
ISqrtIter(n, g) ==
    LET h == (g + n \div g) \div 2
    IN  IF h >= g THEN g ELSE ISqrtIter(n, h)

ISqrt(n) == IF n <= 0 THEN 0 ELSE ISqrtIter(n, Min2(n, 46340))

\* math.sqrt: sqrt(x / S) * S = sqrt(x * S)
Sqrt(x) ==
    IF x < 20000000 THEN ISqrt(x * 100) * 10 ELSE ISqrt(x) * 100

\* ln 2, to 1e-5
LN2_E5 == 69315

\* Largest argument of Exp whose value the fixed-point range holds
\* (e^9.9 = 19930); above it Exp saturates at ExpCap.
EXP_ARG_MAX == 99000

ExpCap == 199300000

RECURSIVE Halve(_, _)
Halve(x, k) == IF k = 0 THEN x ELSE Halve((x + 1) \div 2, k - 1)

RECURSIVE Double(_, _)
Double(x, k) == IF k = 0 THEN x ELSE Double(2 * x, k - 1)

\* e^r for 0 <= r < ln 2: Taylor series to r^7, Horner form.
ExpSeries(r) ==
    LET t7 == S + r \div 7
        t6 == S + Mul(r, t7) \div 6
        t5 == S + Mul(r, t6) \div 5
        t4 == S + Mul(r, t5) \div 4
        t3 == S + Mul(r, t4) \div 3
        t2 == S + Mul(r, t3) \div 2
    IN  S + Mul(r, t2)

\* math.exp: x = k ln 2 + r, e^x = 2^k e^r.
Exp(x) ==
    IF x > EXP_ARG_MAX THEN ExpCap
    ELSE IF x < -EXP_ARG_MAX THEN 0
    ELSE LET k == (x * 10) \div LN2_E5
             r == x - (k * LN2_E5) \div 10
             e == ExpSeries(Max2(0, r))
         IN  IF k >= 0 THEN Double(e, k) ELSE Halve(e, -k)

\* 2 atanh(t) = ln((1 + t) / (1 - t)) for 0 <= t <= 1/3: series to t^9.
LnSeries(t) ==
    LET t2 == Mul(t, t)
        u9 == S \div 9
        u7 == S \div 7 + Mul(t2, u9)
        u5 == S \div 5 + Mul(t2, u7)
        u3 == S \div 3 + Mul(t2, u5)
        u1 == S + Mul(t2, u3)
    IN  2 * Mul(t, u1)

RECURSIVE LnNorm(_, _)
\* <<m, k>> with x = m 2^k and S <= m < 2 S
LnNorm(x, k) ==
    IF x >= 2 * S THEN LnNorm(x \div 2, k + 1)
    ELSE IF x < S THEN LnNorm(2 * x, k - 1)
    ELSE <<x, k>>

\* math.log for x > 0: x = m 2^k, ln x = k ln 2 + ln m.
Ln(x) ==
    LET mk == LnNorm(x, 0)
        m == mk[1]
        k == mk[2]
    IN  (k * LN2_E5) \div 10 + LnSeries(Div(m - S, m + S))

\* math.erf for x >= 0 (Abramowitz-Stegun 7.1.26), kept within erf's range
\* [0, 1].
ErfNN(x) ==
    LET t == Div(S, S + Mul(3276, x))
        h5 == 10614
        h4 == -14532 + Mul(t, h5)
        h3 == 14214 + Mul(t, h4)
        h2 == -2845 + Mul(t, h3)
        h1 == 2548 + Mul(t, h2)
        poly == Mul(t, h1)
    IN  Min2(S, Max2(0, S - Mul(poly, Exp(-Mul(x, x)))))

\* math.erf
Erf(x) == IF x < 0 THEN -ErfNN(-x) ELSE ErfNN(x)

\* math.pi
PI == 31416

\* sin x for 0 <= x <= pi / 2: Taylor series to x^9, Horner form.
SinSeries(x) ==
    LET x2 == Mul(x, x)
        s4 == S - x2 \div 72
        s3 == S - Mul(x2, s4) \div 42
        s2 == S - Mul(x2, s3) \div 20
        s1 == S - Mul(x2, s2) \div 6
    IN  Mul(x, s1)

\* np.sin on [0, pi]
Sin(x) == IF 2 * x > PI THEN SinSeries(Max2(0, PI - x)) ELSE SinSeries(x)

\* round(x, nd) of Python for nd decimals: to the nearest multiple of
\* unit = S / 10^nd, ties to even.
Round(x, unit) ==
    LET q == x \div unit
        r == x % unit
    IN  IF 2 * r > unit \/ (2 * r = unit /\ q % 2 = 1)
        THEN (q + 1) * unit
        ELSE q * unit


\* ------------------------------------------------------------------------
\* Probabilities are held to eight decimals: a probability p is the integer
\* round(p * P), so that 1 - p keeps its leading digits when p is near 1.
\* ------------------------------------------------------------------------

\* Fixed-point scale of probabilities: 1.0 is P.
P == 100000000

\* ln 2, to 1e-8
LN2_E8 == 69314718

\* Logarithms of probabilities are held to seven decimals: 1.0 is L.
L == 10000000

\* Arguments a from which e^-a is held as 0 (e^-20 = 2e-9, below 1 / P).
EXP_NEG_ZERO == 200000000

\* a * b for a, b >= 0 held at scale P, rounded to nearest.
MulP(a, b) ==
    LET ah == a \div S
        al == a % S
        bh == b \div S
        bl == b % S
    IN  ah * bh
        + (ah * bl + al * bh + (al * bl + S \div 2) \div S + S \div 2) \div S

RECURSIVE DivDigits(_, _, _, _)
\* acc followed by n decimal digits of r / b for 0 <= r < b, rounded to
\* nearest; needs 10 * b < 2^31.
DivDigits(r, b, n, acc) ==
    IF n = 0 THEN acc + (IF 2 * r >= b THEN 1 ELSE 0)
    ELSE DivDigits((r * 10) % b, b, n - 1, acc * 10 + (r * 10) \div b)

\* a / b held at scale P, for a >= 0, b > 0
DivP(a, b) == DivDigits(a % b, b, 8, a \div b)

\* e^r held at scale P for 0 <= r < ln 2 held at scale P: Taylor series to
\* r^12, Horner form.
ExpSeriesP(r) ==
    LET t12 == P + r \div 12
        t11 == P + MulP(r, t12) \div 11
        t10 == P + MulP(r, t11) \div 10
        t9 == P + MulP(r, t10) \div 9
        t8 == P + MulP(r, t9) \div 8
        t7 == P + MulP(r, t8) \div 7
        t6 == P + MulP(r, t7) \div 6
        t5 == P + MulP(r, t6) \div 5
        t4 == P + MulP(r, t5) \div 4
        t3 == P + MulP(r, t4) \div 3
        t2 == P + MulP(r, t3) \div 2
    IN  P + MulP(r, t2)

\* math.exp(-a) held at scale P, for a >= 0 held at scale L:
\* a = k ln 2 - r with 0 <= r < ln 2, e^-a = e^r / 2^k.
ExpNegP(a) ==
    IF a >= EXP_NEG_ZERO THEN 0
    ELSE LET k == (a * 10 + LN2_E8 - 1) \div LN2_E8
             r == k * LN2_E8 - a * 10
             d == Double(1, k)
         IN  (ExpSeriesP(r) + d \div 2) \div d

\* 2 atanh(t) = ln((1 + t) / (1 - t)) for 0 <= t <= 1/3 held at scale P:
\* series to t^15.
LnSeriesP(t) ==
    LET t2 == MulP(t, t)
        u15 == P \div 15
        u13 == P \div 13 + MulP(t2, u15)
        u11 == P \div 11 + MulP(t2, u13)
        u9 == P \div 9 + MulP(t2, u11)
        u7 == P \div 7 + MulP(t2, u9)
        u5 == P \div 5 + MulP(t2, u7)
        u3 == P \div 3 + MulP(t2, u5)
        u1 == P + MulP(t2, u3)
    IN  2 * MulP(t, u1)

RECURSIVE LnNormP(_, _)
\* <<m, k>> with q 2^k = m and P <= m < 2 P, for 0 < q <= P
LnNormP(q, k) == IF q >= P THEN <<q, k>> ELSE LnNormP(2 * q, k + 1)

\* math.log(q) held at scale L, for 0 < q <= P held at scale P:
\* q = m / 2^k, ln q = ln m - k ln 2.
LnP(q) ==
    LET mk == LnNormP(q, 0)
        m == mk[1]
        k == mk[2]
        t == DivP((m - P) \div 2, (m + P) \div 2)
    IN  -((k * LN2_E8 - LnSeriesP(t) + 5) \div 10)

\* round(p, 4) of a probability
Round4(p) == Round(p, P \div S)

\* ------------------------------------------------------------------------
\* Module constants of calculator.py
\* ------------------------------------------------------------------------

\* An optional value is a set: None is the empty set, a given value v is {v}.
None == {}

Some(v) == {v}

Get(o) == CHOOSE v \in o : TRUE

GRAVITY == 98067

REFERENCE_BODY_MASS == 750000

REFERENCE_HEIGHT == 17500

REFERENCE_HEAD_MASS == 47500

REFERENCE_TORSO_MASS == 350000

REFERENCE_LEG_MASS == 100000

REFERENCE_NECK_LEVER_ARM == 1250

\* The mass fractions are held at scale P
HEAD_MASS_FRACTION == DivP(REFERENCE_HEAD_MASS, REFERENCE_BODY_MASS)

TORSO_MASS_FRACTION == DivP(REFERENCE_TORSO_MASS, REFERENCE_BODY_MASS)

LEG_MASS_FRACTION == DivP(REFERENCE_LEG_MASS, REFERENCE_BODY_MASS)

\* Pulse durations, ms
PULSE_DURATIONS ==
    [frontal |-> 1000000, side |-> 700000, rear |-> 900000]

\* The default of PULSE_DURATIONS.get(crash_side, 0.10), ms
PULSE_DURATION_DEFAULT == 1000000

RESTRAINT_ALPHA ==
    [belt_and_airbag |-> 5500, belt_only |-> 7500, unbelted |-> 10500]

DEFAULT_INJURY_CORRELATION_FACTOR == 7500

RISK_CURVES ==
    [head_HIC15_AIS3plus_probit |->
         [form |-> "probit_lognormal", mu |-> 74523, sigma |-> 7400],
     neck_Nij_AIS3plus |->
         [beta0 |-> -32270, beta1 |-> 19690],
     thorax_irtracc_max_deflection_mm_AIS3plus |->
         [beta0 |-> -49522, beta1 |-> 1657],
     chest_A3ms |->
         [X50 |-> 600000, k |-> 800],
     femur_force_kN_AIS2plus_proxy |->
         [beta0 |-> 57949, beta1 |-> -7619]]

\* (F_int in N, M_int in N m)
NECK_INTERCEPTS_MODES ==
    [tension_flexion |-> <<42870000, 1550000>>,
     tension_extension |-> <<42870000, 1550000>>,
     compression_flexion |-> <<42870000, 1550000>>,
     compression_extension |-> <<42870000, 1550000>>]

\* Belt stiffness 50000 N/m, in N/mm
DEFAULT_BELT_STIFFNESS == 500000

\* The four calibration tables as the module defines them
ModuleTables ==
    [RISK_CURVES |-> RISK_CURVES,
     NECK_INTERCEPTS_MODES |-> NECK_INTERCEPTS_MODES,
     PULSE_DURATIONS |-> PULSE_DURATIONS,
     RESTRAINT_ALPHA |-> RESTRAINT_ALPHA]

\* The module's globals RISK_CURVES, NECK_INTERCEPTS_MODES, PULSE_DURATIONS
\* and RESTRAINT_ALPHA as the interpreter holds them: every calculator of
\* every thread reads these same four dictionaries.
VARIABLE tables

VARIABLES
    results,      \* self.results of the running thread's calculator
    other         \* <<>>, or <<the inputs, calculator and locals of a second
                  \* thread, which is not running>>

\* ------------------------------------------------------------------------
\* class CrashInputs
\* ------------------------------------------------------------------------

calculate_head_mass(occupant_mass, gender) ==
    LET base_mass == MulP(occupant_mass, HEAD_MASS_FRACTION)
    IN  IF gender = "female" THEN Mul(base_mass, 9500) ELSE base_mass

calculate_torso_mass(occupant_mass, is_pregnant) ==
    LET base_mass == MulP(occupant_mass, TORSO_MASS_FRACTION)
    IN  IF is_pregnant THEN Mul(base_mass, 11500) ELSE base_mass

calculate_leg_mass(occupant_mass) == MulP(occupant_mass, LEG_MASS_FRACTION)

calculate_neck_lever_arm(occupant_height) ==
    Mul(REFERENCE_NECK_LEVER_ARM, Div(occupant_height, REFERENCE_HEIGHT))

estimate_torso_length(occupant_height) == Mul(occupant_height, 3400)

\* The constructor's defaults for the arguments a caller leaves out.
CrashInputsDefaults ==
    [coefficient_restitution |-> 0,
     occupant_mass |-> 750000,
     occupant_height |-> 17500,
     gender |-> "female",
     is_pregnant |-> FALSE,
     seat_distance_from_wheel |-> 3000,
     seat_recline_angle |-> 250000,
     seat_height_relative_to_dash |-> 0,
     torso_length |-> None,
     neck_strength |-> "average",
     seat_position |-> "driver",
     pelvis_lap_belt_fit |-> "average",
     neck_nat_freq_hz |-> 100000,
     neck_damping_ratio |-> 2000,
     neck_k_override |-> None,
     neck_c_override |-> None,
     injury_correlation_factor |-> DEFAULT_INJURY_CORRELATION_FACTOR,
     seatbelt_used |-> TRUE,
     seatbelt_pretensioner |-> FALSE,
     seatbelt_load_limiter |-> FALSE,
     front_airbag |-> TRUE,
     side_airbag |-> FALSE,
     crumple_zone_length |-> 5000,
     cabin_rigidity |-> "medium",
     intrusion |-> 0,
     head_mass |-> None,
     torso_mass |-> None,
     leg_mass |-> None,
     neck_lever_arm |-> None]

\* CrashInputs.__init__: kw are the keyword arguments given (impact_speed and
\* crash_side among them); the derived attributes are computed once, here.
CrashInputs(kw) ==
    LET a == [f \in DOMAIN CrashInputsDefaults \cup DOMAIN kw |->
                 IF f \in DOMAIN kw THEN kw[f] ELSE CrashInputsDefaults[f]]
    IN  [a EXCEPT
           !.torso_length =
               IF @ # None THEN Get(@)
               ELSE estimate_torso_length(a.occupant_height),
           !.head_mass =
               IF @ # None THEN Get(@)
               ELSE calculate_head_mass(a.occupant_mass, a.gender),
           !.torso_mass =
               IF @ # None THEN Get(@)
               ELSE calculate_torso_mass(a.occupant_mass, a.is_pregnant),
           !.leg_mass =
               IF @ # None THEN Get(@)
               ELSE calculate_leg_mass(a.occupant_mass),
           !.neck_lever_arm =
               IF @ # None THEN Get(@)
               ELSE calculate_neck_lever_arm(a.occupant_height)]


\* ------------------------------------------------------------------------
\* class BaselineRiskCalculator: risk curves
\* ------------------------------------------------------------------------

\* A call that returns v, and one that raises exception e.
Return(v) == [exc |-> "none", value |-> v]

Raise(e) == [exc |-> e, value |-> None]

\* math.exp raises OverflowError above 709.78.
EXP_OVERFLOW == 7097800

\* a >= 0 held at scale S, at scale L; from EXP_NEG_ZERO on e^-a is 0
ToL(a) == Min2(a, EXP_NEG_ZERO \div (L \div S)) * (L \div S)

\* 2 / (1 + math.exp(e)): the numerator is wrong
inv_one_plus_exp_twice(e) ==
    IF e > EXP_OVERFLOW THEN Raise("OverflowError")
    ELSE IF e >= 0
    THEN LET x == ExpNegP(ToL(e)) IN Return(2 * DivP(x, P + x))
    ELSE LET x == ExpNegP(ToL(-e)) IN Return(2 * DivP(P, P + x))

\* 1 / (1 + math.exp(e)), a probability
inv_one_plus_exp(e) ==
    IF e > EXP_OVERFLOW THEN Raise("OverflowError")
    ELSE IF e >= 0
    THEN LET x == ExpNegP(ToL(e)) IN Return(DivP(x, P + x))
    ELSE LET x == ExpNegP(ToL(-e)) IN Return(DivP(P, P + x))

\* _normal_cdf, a probability
normal_cdf(x) == (P \div S) * Mul(5000, S + Erf(Div(x, Sqrt(2 * S))))

\* math.log(10)
LN10 == 23026

\* A criterion value beyond the fixed-point range is given as m 10^e with
\* m in range and e >= 0; e = 0 for the values calculate_all computes.
RECURSIVE Pow10(_)
Pow10(e) == IF e = 0 THEN 1 ELSE 10 * Pow10(e - 1)

\* The linear predictor of the probit-on-log branch, for a value > 0
probit_z(params, m, e) == Div(Ln(m) + e * LN10 - params.mu, params.sigma)

\* The probit-on-log branch of _risk
risk_probit(params, m, e) ==
    IF m <= 0 THEN Return(0)
    ELSE LET z == probit_z(params, m, e)
         IN  IF z > 8 * S THEN Return(P)
             ELSE IF z < -8 * S THEN Return(0)
             ELSE Return(normal_cdf(z))

\* The linear predictor of the logistic-regression branch
logistic_z(params, m, e) == params.beta0 + Mul(params.beta1, m) * Pow10(e)

\* The logistic-regression branch without its two clamps
risk_logistic_unclamped(params, m, e) ==
    inv_one_plus_exp(-logistic_z(params, m, e))

\* The logistic-regression branch of _risk
risk_logistic(params, m, e) ==
    LET z == logistic_z(params, m, e)
    IN  IF z > 50 * S THEN Return(P)
        ELSE IF z < -50 * S THEN Return(0)
        ELSE inv_one_plus_exp(-z)

\* The exponent of the legacy X50/k branch
legacy_exponent(params, m, e) ==
    -(Mul(params.k, m) * Pow10(e) - Mul(params.k, params.X50))

\* The legacy X50/k branch of _risk
risk_legacy(params, m, e) ==
    LET exponent == legacy_exponent(params, m, e)
    IN  IF exponent > 50 * S THEN Return(0)
        ELSE IF exponent < -50 * S THEN Return(P)
        ELSE inv_one_plus_exp(exponent)

\* The branch of _risk that the parameters of a curve select
curve_form(params) ==
    IF "form" \in DOMAIN params /\ params.form = "probit_lognormal"
    THEN "probit_lognormal"
    ELSE IF {"beta0", "beta1"} \subseteq DOMAIN params THEN "logistic"
    ELSE "legacy"

\* _risk with RISK_CURVES.get(criterion) and a default probability of 0.5
\* for an unknown criterion
risk_scaled_default(criterion, m, e) ==
    IF criterion \notin DOMAIN tables.RISK_CURVES THEN Return(P \div 2)
    ELSE LET params == tables.RISK_CURVES[criterion]
             form == curve_form(params)
         IN  CASE form = "probit_lognormal" -> risk_probit(params, m, e)
               [] form = "logistic" -> risk_logistic(params, m, e)
               [] OTHER -> risk_legacy(params, m, e)

\* _risk for the value m 10^e: RISK_CURVES[criterion] raises KeyError for an
\* unknown criterion.
risk_scaled(criterion, m, e) ==
    IF criterion \notin DOMAIN tables.RISK_CURVES THEN Raise("KeyError")
    ELSE LET params == tables.RISK_CURVES[criterion]
             form == curve_form(params)
         IN  CASE form = "probit_lognormal" -> risk_probit(params, m, e)
               [] form = "logistic" -> risk_logistic(params, m, e)
               [] OTHER -> risk_legacy(params, m, e)

\* _risk
risk(criterion, value) == risk_scaled(criterion, value, 0)

\* ------------------------------------------------------------------------
\* Steps 1-3: delta-V, pulse, occupant load transfer
\* ------------------------------------------------------------------------

\* delta-V added to the delta-V that the calculator's last results hold
compute_delta_v_accumulated(inp) ==
    Mul(S + inp.coefficient_restitution, inp.impact_speed)
    + (IF DOMAIN results = {} THEN 0 ELSE results.delta_v_mps)

compute_delta_v(inp) ==
    Mul(S + inp.coefficient_restitution, inp.impact_speed)

\* The pulse duration kept in one place for all threads: the one the other
\* thread has assigned, if it has
get_pulse_duration_shared(inp) ==
    IF Len(other) = 1 /\ DOMAIN other[1].pulse # {}
    THEN other[1].pulse.pulse_duration
    ELSE IF inp.crash_side \in DOMAIN tables.PULSE_DURATIONS
    THEN tables.PULSE_DURATIONS[inp.crash_side]
    ELSE PULSE_DURATION_DEFAULT

get_pulse_duration(inp) ==
    IF inp.crash_side \in DOMAIN tables.PULSE_DURATIONS
    THEN tables.PULSE_DURATIONS[inp.crash_side]
    ELSE PULSE_DURATION_DEFAULT

\* (pi / 2) (delta_v / T), T in ms
compute_peak_acceleration(delta_v, T) ==
    Mul(PI \div 2, Div(1000 * delta_v, T))

\* Samples per second of the pulse (the program's default is 10000).
SampleRate == 500

\* np.linspace(0, T, n)
linspace(T, n) ==
    LET step == (T + (n - 1) \div 2) \div (n - 1)
    IN  [i \in 1..n |-> IF i = n THEN T ELSE (i - 1) * step]

\* <<time_array, a_vehicle>>
generate_crash_pulse(a_peak, T) ==
    LET n_samples == Max2(2, (T * SampleRate) \div (1000 * S))
        time_array == linspace(T, n_samples)
    IN  <<time_array,
          [i \in 1..n_samples |->
              Mul(a_peak, Sin(Div(Mul(PI, time_array[i]), T)))]>>

\* The transfer factor with the front airbag taken as relevant to every
\* crash side
get_restraint_transfer_factor_front(inp) ==
    LET has_airbag == inp.front_airbag
        alpha0 == IF inp.seatbelt_used /\ has_airbag
                  THEN tables.RESTRAINT_ALPHA.belt_and_airbag
                  ELSE IF inp.seatbelt_used
                  THEN tables.RESTRAINT_ALPHA.belt_only
                  ELSE tables.RESTRAINT_ALPHA.unbelted
        alpha1 == IF inp.seatbelt_pretensioner THEN Mul(alpha0, 9500)
                  ELSE alpha0
    IN  IF inp.seatbelt_load_limiter THEN Mul(alpha1, 9800) ELSE alpha1

get_restraint_transfer_factor(inp) ==
    LET has_airbag == IF inp.crash_side = "frontal" THEN inp.front_airbag
                      ELSE inp.side_airbag
        alpha0 == IF inp.seatbelt_used /\ has_airbag
                  THEN tables.RESTRAINT_ALPHA.belt_and_airbag
                  ELSE IF inp.seatbelt_used
                  THEN tables.RESTRAINT_ALPHA.belt_only
                  ELSE tables.RESTRAINT_ALPHA.unbelted
        alpha1 == IF inp.seatbelt_pretensioner THEN Mul(alpha0, 9500)
                  ELSE alpha0
    IN  IF inp.seatbelt_load_limiter THEN Mul(alpha1, 9800) ELSE alpha1

\* _get_restraint_type_string: the parts that " + ".join puts together
get_restraint_type_string(inp) ==
    (IF inp.seatbelt_used
     THEN <<"seatbelt">>
          \o (IF inp.seatbelt_pretensioner THEN <<"pretensioner">> ELSE <<>>)
          \o (IF inp.seatbelt_load_limiter THEN <<"load_limiter">> ELSE <<>>)
     ELSE <<"unbelted">>)
    \o (IF inp.front_airbag /\ inp.crash_side = "frontal"
        THEN <<"front_airbag">> ELSE <<>>)
    \o (IF inp.side_airbag /\ inp.crash_side = "side"
        THEN <<"side_airbag">> ELSE <<>>)

RECURSIVE RangeMax(_, _, _)
\* max(a[lo .. hi]), by halving the range
RangeMax(a, lo, hi) ==
    IF lo = hi THEN a[lo]
    ELSE LET mid == (lo + hi) \div 2
         IN  Max2(RangeMax(a, lo, mid), RangeMax(a, mid + 1, hi))

\* np.max of a[1..n]
SeqMax(a, n) == RangeMax(a, 1, n)

\* ------------------------------------------------------------------------
\* Step 4: injury criteria
\* ------------------------------------------------------------------------

\* x / d for an integer d > 0, rounded to nearest
Scale(x, d) ==
    IF x >= 0 THEN (x + d \div 2) \div d ELSE -((d \div 2 - x) \div d)

\* x * t for a time t held in ms: x * (t / 1000)
MulMs(x, t) == Scale(Mul(Scale(x, 10), t), 100)

RECURSIVE SeqSum(_, _, _)
SeqSum(a, lo, hi) == IF lo > hi THEN 0 ELSE a[lo] + SeqSum(a, lo + 1, hi)

\* np.mean(a[lo .. hi])
mean(a, lo, hi) == Scale(SeqSum(a, lo, hi), hi - lo + 1)

\* x ** 2.5 for x >= 0
pow25(x) == Mul(Mul(x, x), Sqrt(x))

\* The 15 ms window of HIC15, ms
HIC_WINDOW == 150000

\* Whether the pair of samples i, j is scored (the code's `continue` skips
\* the others); Python's i, j are i - 1, j - 1.
hic_scored(time_array, i, j) ==
    LET duration == time_array[j] - time_array[i]
    IN  ~(duration <= 0 \/ duration > HIC_WINDOW)

\* The score of the window of samples i..j
hic_value(time_array, a_g, i, j) ==
    LET duration == time_array[j] - time_array[i]
    IN  MulMs(pow25(mean(a_g, i, j - 1)), duration)

RECURSIVE hic_inner(_, _, _, _, _)
\* for j in range(i + 1, j_max + 1): the largest score from j on, 0 if none
\* (hic_max starts at 0 and is replaced by any larger score)
hic_inner(time_array, a_g, i, j, j_max) ==
    IF j > j_max THEN 0
    ELSE Max2(IF hic_scored(time_array, i, j)
              THEN hic_value(time_array, a_g, i, j)
              ELSE 0,
              hic_inner(time_array, a_g, i, j + 1, j_max))

RECURSIVE hic_outer(_, _, _, _, _)
\* for i in range(len(a_g) - 1): the largest score over the start samples
\* lo..hi, by halving the range
hic_outer(time_array, a_g, lo, hi, max_window_samples) ==
    IF lo > hi THEN 0
    ELSE IF lo = hi
    THEN hic_inner(time_array, a_g, lo, lo + 1,
                   Min2(lo + max_window_samples, Len(a_g)))
    ELSE LET mid == (lo + hi) \div 2
         IN  Max2(hic_outer(time_array, a_g, lo, mid, max_window_samples),
                  hic_outer(time_array, a_g, mid + 1, hi, max_window_samples))

\* _compute_hic15 with a window one sample too short
compute_hic15_short_window(time_array, a_g) ==
    LET dt == time_array[2] - time_array[1]
    IN  IF dt <= 0 THEN 0
        ELSE hic_outer(time_array, a_g, 1, Len(a_g) - 1,
                       Max2(2, HIC_WINDOW \div dt) - 1)

compute_hic15(time_array, a_g) ==
    LET dt == time_array[2] - time_array[1]
    IN  IF dt <= 0 THEN 0
        ELSE hic_outer(time_array, a_g, 1, Len(a_g) - 1,
                       Max2(2, HIC_WINDOW \div dt))

\* Neck strength multipliers; .get(neck_strength, 1.0)
strength_multiplier(neck_strength) ==
    CASE neck_strength = "weak" -> 13000
      [] neck_strength = "strong" -> 8500
      [] OTHER -> S

\* The loading mode of a time step with flexion only for My above 0
nij_mode_strict_flexion(Fz, My) ==
    IF Fz >= 0 /\ My > 0 THEN "tension_flexion"
    ELSE IF Fz >= 0 /\ My <= 0 THEN "tension_extension"
    ELSE IF Fz < 0 /\ My > 0 THEN "compression_flexion"
    ELSE "compression_extension"

\* The loading mode of one time step, from the signs of Fz and My
nij_mode(Fz, My) ==
    IF Fz >= 0 /\ My >= 0 THEN "tension_flexion"
    ELSE IF Fz >= 0 /\ My < 0 THEN "tension_extension"
    ELSE IF Fz < 0 /\ My >= 0 THEN "compression_flexion"
    ELSE "compression_extension"

\* One pass of the loop of _compute_nij over sample i; st holds the loop's
\* variables x (mm), v, nij_peak, nij_peak_components, mode_counts.  The
\* mode is taken from the sign that the float product Fz * lever_arm *
\* recline_factor has, which rounding My to the grid must not lose.
nij_step(st, a_i, dt, m, k, c, lever_arm, recline_factor, strength_mult) ==
    LET xdd == Div(-(Mul(c, st.v) + Mul(k, st.x)), m) - a_i
        v == st.v + MulMs(xdd, dt)
        x == st.x + Mul(v, dt)
        Fz == Mul(k, x) + Mul(c, v)
        My == Mul(Mul(Fz, lever_arm), recline_factor)
        mode == nij_mode(Fz, Sign(Fz) * Sign(lever_arm) * Sign(recline_factor))
        F_int == tables.NECK_INTERCEPTS_MODES[mode][1]
        M_int == tables.NECK_INTERCEPTS_MODES[mode][2]
        nij_t == Mul(Div(Fz, F_int) + Div(My, M_int), strength_mult)
        peak == nij_t > st.nij_peak
    IN  [x |-> x,
         v |-> v,
         nij_peak |-> IF peak THEN nij_t ELSE st.nij_peak,
         nij_peak_components |->
             IF peak THEN [Fz_N |-> Fz, My_Nm |-> My, mode |-> mode]
             ELSE st.nij_peak_components,
         mode_counts |-> [st.mode_counts EXCEPT ![mode] = @ + 1]]

RECURSIVE nij_loop(_, _, _, _, _, _, _, _, _, _, _)
\* for i in range(len(t)): the loop's variables after the passes over samples
\* lo..hi, entered with st; the range is halved and the first half is
\* evaluated before the second is entered.
nij_loop(st, a, lo, hi, dt, m, k, c, lever_arm, recline_factor, strength_mult) ==
    IF lo = hi
    THEN nij_step(st, a[lo], dt, m, k, c, lever_arm, recline_factor,
                  strength_mult)
    ELSE LET mid == (lo + hi) \div 2
             st_mid == nij_loop(st, a, lo, mid, dt, m, k, c, lever_arm,
                                recline_factor, strength_mult)
         IN  IF st_mid.x = st_mid.x
             THEN nij_loop(st_mid, a, mid + 1, hi, dt, m, k, c, lever_arm,
                           recline_factor, strength_mult)
             ELSE st_mid

\* _compute_nij: <<nij_peak, details>>; k is held in N/mm, x in mm.
compute_nij(inp, time_array, a_occ) ==
    IF Len(time_array) < 2
    THEN <<0, [note |-> "Insufficient time samples for Nij dynamics."]>>
    ELSE
    LET dt == time_array[2] - time_array[1]
        m == inp.head_mass
        wn == Mul(2 * PI, Max2(1000, inp.neck_nat_freq_hz))
        k == IF inp.neck_k_override # None
             THEN Scale(Get(inp.neck_k_override), 1000)
             ELSE Scale(Mul(m, Mul(wn, wn)), 1000)
        zeta == Max2(0, inp.neck_damping_ratio)
        c == IF inp.neck_c_override # None THEN Get(inp.neck_c_override)
             ELSE Mul(2 * zeta, Sqrt(Max2(0, Mul(1000 * k, m))))
        lever_arm == inp.neck_lever_arm
        recline_factor == S + Scale(inp.seat_recline_angle, 100)
        strength_mult == strength_multiplier(inp.neck_strength)
        st0 == [x |-> 0,
                v |-> 0,
                nij_peak |-> 0,
                nij_peak_components |->
                    [Fz_N |-> 0, My_Nm |-> 0, mode |-> "unknown"],
                mode_counts |->
                    [tension_flexion |-> 0, tension_extension |-> 0,
                     compression_flexion |-> 0, compression_extension |-> 0]]
        st == nij_loop(st0, a_occ, 1, Len(a_occ), dt, m, k, c, lever_arm,
                       recline_factor, strength_mult)
    IN  IF dt <= 0
        THEN <<0, [note |-> "Non-positive dt; cannot compute Nij dynamics."]>>
        ELSE <<st.nij_peak,
               [model |-> "head_neck_sdof_proxy",
                dt_s |-> dt,
                m_head_kg |-> m,
                k_neck_N_per_m |-> k,
                c_neck_Ns_per_m |-> c,
                lever_arm_m |-> lever_arm,
                recline_factor |-> recline_factor,
                strength_multiplier |-> strength_mult,
                nij_peak_components |-> st.nij_peak_components,
                mode_counts |-> st.mode_counts]>>

RECURSIVE a3ms_loop(_, _, _, _)
\* for i in range(len(a_g) - window_samples): the largest window mean over
\* the start samples lo..hi (max_avg starts at 0), by halving the range
a3ms_loop(a_g, lo, hi, window_samples) ==
    IF lo > hi THEN 0
    ELSE IF lo = hi THEN Max2(0, mean(a_g, lo, lo + window_samples - 1))
    ELSE LET mid == (lo + hi) \div 2
         IN  Max2(a3ms_loop(a_g, lo, mid, window_samples),
                  a3ms_loop(a_g, mid + 1, hi, window_samples))

compute_chest_a3ms(time_array, a_g) ==
    LET dt == time_array[2] - time_array[1]
    IN  IF dt <= 0 THEN 0
        ELSE LET window_samples == Max2(1, 30000 \div dt)
             IN  a3ms_loop(a_g, 1, Len(a_g) - window_samples, window_samples)

\* gamma with the seat distance factors applied whether or not a front
\* airbag is present in a frontal crash
chest_gamma_distance_always(inp) ==
    LET g == IF inp.front_airbag /\ inp.crash_side = "frontal"
             THEN Mul(8000, 7000) ELSE 8000
    IN  IF inp.seat_distance_from_wheel < 1500 THEN Mul(g, 13000)
        ELSE IF inp.seat_distance_from_wheel > 5000 THEN Mul(g, 12000)
        ELSE g

\* gamma of _compute_chest_deflection
chest_gamma(inp) ==
    IF inp.front_airbag /\ inp.crash_side = "frontal"
    THEN LET g == Mul(8000, 7000)
         IN  IF inp.seat_distance_from_wheel < 1500 THEN Mul(g, 13000)
             ELSE IF inp.seat_distance_from_wheel > 5000 THEN Mul(g, 12000)
             ELSE g
    ELSE 8000

\* The chest deflection without the pregnancy factor
compute_chest_deflection_unscaled(inp, a_occ_peak) ==
    LET gamma == chest_gamma(inp)
        k_belt == DEFAULT_BELT_STIFFNESS
        F_chest == Mul(inp.torso_mass, a_occ_peak)
    IN  Div(Mul(gamma, F_chest), k_belt)

\* _compute_chest_deflection, in mm (the belt stiffness is held in N/mm)
compute_chest_deflection(inp, a_occ_peak) ==
    LET gamma == chest_gamma(inp)
        k_belt == DEFAULT_BELT_STIFFNESS
        F_chest == Mul(inp.torso_mass, a_occ_peak)
        x_chest == Div(Mul(gamma, F_chest), k_belt)
    IN  IF inp.is_pregnant THEN Mul(x_chest, 11000) ELSE x_chest

\* _compute_femur_load, in N
compute_femur_load(inp, a_occ_peak) ==
    LET F_femur_base == Mul(inp.leg_mass, a_occ_peak)
        pelvis_factor == CASE inp.pelvis_lap_belt_fit = "poor" -> 12500
                           [] inp.pelvis_lap_belt_fit = "good" -> 8500
                           [] OTHER -> S
        position_factor == IF inp.seat_position = "passenger" THEN 10500
                           ELSE S
    IN  Mul(Mul(F_femur_base, pelvis_factor), position_factor)

\* ------------------------------------------------------------------------
\* Step 6: overall risk combination
\* ------------------------------------------------------------------------

\* math.log(1e-12), held at scale L
LN_1E_12 == -276310211

\* math.log(max(1e-3, q)): the floor is too high
log_floor_high(q) == IF q <= P \div 1000 THEN LnP(P \div 1000) ELSE LnP(q)

\* math.log(max(1e-12, q)) for q = 1 - p: 1e-12 lies below the resolution of
\* probabilities, so the floor is taken exactly when q is held as 0.
log_floor(q) == IF q <= 0 THEN LN_1E_12 ELSE LnP(q)

RECURSIVE log_p_none(_, _)
\* for p in probs: log_p_none_ind += math.log(max(1e-12, 1.0 - p))
log_p_none(probs, i) ==
    IF i > Len(probs) THEN 0
    ELSE log_floor(P - probs[i]) + log_p_none(probs, i + 1)

\* x ** cf for a probability x and 0 < cf <= 1: exp(cf ln x), and 0 for 0
pow(x, cf) == IF x <= 0 THEN 0 ELSE ExpNegP(MulNN(cf, -LnP(x)))

\* The combiner with corr_factor used as given, not clamped
combine_injury_probabilities_unclamped(probabilities, corr_factor) ==
    LET probs == [i \in 1..Len(probabilities) |->
                     Min2(P, Max2(0, probabilities[i]))]
        cf == corr_factor
        log_p_none_ind == log_p_none(probs, 1)
        p_none_ind == ExpNegP(Min2(EXP_NEG_ZERO, -log_p_none_ind))
        p_none_corr == pow(p_none_ind, cf)
        p_any_corr == P - p_none_corr
    IN  <<p_any_corr,
          [channels |-> probs,
           log_p_none_ind |-> log_p_none_ind,
           p_none_independence |-> p_none_ind,
           p_any_independence |-> P - p_none_ind,
           corr_factor_used |-> cf,
           p_none_corr_adjusted |-> p_none_corr,
           p_any_corr_adjusted |-> p_any_corr]>>

\* _combine_injury_probabilities_correlated: <<p_any_corr, details>>;
\* corr_factor is held at scale S.
combine_injury_probabilities_correlated(probabilities, corr_factor) ==
    LET probs == [i \in 1..Len(probabilities) |->
                     Min2(P, Max2(0, probabilities[i]))]
        cf == Min2(S, Max2(1000, corr_factor))
        log_p_none_ind == log_p_none(probs, 1)
        p_none_ind == ExpNegP(Min2(EXP_NEG_ZERO, -log_p_none_ind))
        p_none_corr == pow(p_none_ind, cf)
        p_any_corr == P - p_none_corr
    IN  <<p_any_corr,
          [channels |-> probs,
           log_p_none_ind |-> log_p_none_ind,
           p_none_independence |-> p_none_ind,
           p_any_independence |-> P - p_none_ind,
           corr_factor_used |-> cf,
           p_none_corr_adjusted |-> p_none_corr,
           p_any_corr_adjusted |-> p_any_corr]>>

\* ------------------------------------------------------------------------
\* calculate_all, step by step: what each step assigns, from self.inputs and
\* the locals assigned before it
\* ------------------------------------------------------------------------

CALIBRATION_SET ==
    "thor_05f_ais3plus_thorax_irtracc_xy_v1_ncap_head_neck_kth_femur_v1_corrcombo_nij_dyn_v1"

\* Steps 2 and 3: pulse_duration, a_peak, time_array, a_vehicle
calculate_all_pulse(inp, dv) ==
    LET pulse_duration == get_pulse_duration(inp)
        a_peak == compute_peak_acceleration(dv, pulse_duration)
        gen == generate_crash_pulse(a_peak, pulse_duration)
    IN  [pulse_duration |-> pulse_duration, a_peak |-> a_peak,
         time_array |-> gen[1], a_vehicle |-> gen[2]]

\* Step 4: alpha, a_occ, a_occ_g, a_occ_peak
calculate_all_occ(inp, pl) ==
    LET alpha == get_restraint_transfer_factor(inp)
        a_occ == [i \in DOMAIN pl.a_vehicle |-> Mul(alpha, pl.a_vehicle[i])]
    IN  [alpha |-> alpha,
         a_occ |-> a_occ,
         a_occ_g |-> [i \in DOMAIN a_occ |-> Div(a_occ[i], GRAVITY)],
         a_occ_peak |-> SeqMax(a_occ, Len(a_occ))]

\* The locals of step 5, given the pair (nij, nij_details) that _compute_nij
\* returned
criteria_with_nij(inp, pl, oc, nij) ==
    [hic15 |-> compute_hic15(pl.time_array, oc.a_occ_g),
     nij |-> nij[1],
     nij_details |-> nij[2],
     chest_a3ms |-> compute_chest_a3ms(pl.time_array, oc.a_occ_g),
     chest_deflection_mm |-> compute_chest_deflection(inp, oc.a_occ_peak),
     femur_force_kN |-> Scale(compute_femur_load(inp, oc.a_occ_peak), 1000)]

\* Step 5: the injury criteria
calculate_all_crit(inp, pl, oc) ==
    criteria_with_nij(inp, pl, oc, compute_nij(inp, pl.time_array, oc.a_occ))

\* The locals of step 6, in the order of their assignment
ProbabilityLocals ==
    <<"p_head", "p_neck", "p_thorax", "p_chest_accel_diag", "p_femur">>

RECURSIVE first_raised(_, _)
\* The exception of the first call of calls[i ..] that raises, "none" if
\* none does
first_raised(calls, i) ==
    IF i > Len(ProbabilityLocals) THEN "none"
    ELSE IF calls[ProbabilityLocals[i]].exc # "none"
    THEN calls[ProbabilityLocals[i]].exc
    ELSE first_raised(calls, i + 1)

\* What step 6 gives for the five calls of _risk: the first exception
\* propagates.
probabilities_of(calls) ==
    IF first_raised(calls, 1) # "none" THEN Raise(first_raised(calls, 1))
    ELSE Return([k \in DOMAIN calls |-> calls[k].value])

\* The criterion each local of step 6 is the risk of
ProbabilityCriteria ==
    [p_head |-> "head_HIC15_AIS3plus_probit",
     p_neck |-> "neck_Nij_AIS3plus",
     p_thorax |-> "thorax_irtracc_max_deflection_mm_AIS3plus",
     p_chest_accel_diag |-> "chest_A3ms",
     p_femur |-> "femur_force_kN_AIS2plus_proxy"]

\* The value each call of _risk in step 6 is given
criterion_value(cr, local) ==
    CASE local = "p_head" -> cr.hic15
      [] local = "p_neck" -> cr.nij
      [] local = "p_thorax" -> cr.chest_deflection_mm
      [] local = "p_chest_accel_diag" -> cr.chest_a3ms
      [] local = "p_femur" -> cr.femur_force_kN

\* Step 6: the five calls of _risk
calculate_all_prob(cr) ==
    probabilities_of(
        [local \in DOMAIN ProbabilityCriteria |->
            risk(ProbabilityCriteria[local], criterion_value(cr, local))])

\* p_baseline * 100.0 rounded to one decimal, held at scale S
risk_score_0_100(p_baseline) == Round(p_baseline, P \div 1000) \div 100

\* The assumptions of the results; an f-string is held as its text and the
\* values it formats.
assumptions(inp, pl) ==
    <<"Rigid barrier impact (infinite mass)",
      <<"Coefficient of restitution", inp.coefficient_restitution>>,
      <<"Pulse shape: half-sine over ms", pl.pulse_duration>>,
      <<"Restraint model", get_restraint_type_string(inp)>>,
      <<"Biomechanical parameters scaled from occupant mass and height",
        inp.occupant_mass, inp.occupant_height>>,
      "Nij is computed from a simple head-neck spring-damper model",
      "Nij intercepts are mode-aware in code",
      <<"Neck injury adjusted for neck strength and recline",
        inp.neck_strength, inp.seat_recline_angle>>,
      "Chest deflection from simplified spring model",
      <<"Seat position", inp.seat_position>>,
      <<"Seat distance from wheel", inp.seat_distance_from_wheel>>,
      <<"Pelvis/lap belt fit", inp.pelvis_lap_belt_fit>>,
      "Femur load from effective leg mass",
      "Thorax AIS3+ probability uses THOR-05F IR-TRACC max deflection IRF",
      "Chest 3ms acceleration is computed but treated as diagnostic only.",
      "Femur probability uses AIS2+ (KTH) proxy curve",
      "Overall injury probability uses correlation-adjusted union",
      <<"Correlation factor used", inp.injury_correlation_factor>>>>

\* The dictionary assigned to self.results, given the pair (p_baseline,
\* combination_details) that the combination returned
results_with_combination(inp, dv, pl, oc, cr, pr, comb) ==
    LET p_baseline == comb[1]
    IN  [calibration_set |-> CALIBRATION_SET,
         delta_v_mps |-> Round(dv, 100),
         pulse_duration_s |-> pl.pulse_duration,
         pulse_type |-> "half-sine",
         peak_accel_g |-> Round(Div(pl.a_peak, GRAVITY), 100),
         restraint_type |-> get_restraint_type_string(inp),
         restraint_transfer_factor |-> Round(oc.alpha, 10),
         HIC15 |-> Round(cr.hic15, 1000),
         Nij |-> Round(cr.nij, 10),
         Nij_details |-> cr.nij_details,
         chest_A3ms_g |-> Round(cr.chest_a3ms, 1000),
         thorax_deflection_proxy_m |-> Round(cr.chest_deflection_mm, 100),
         thorax_irtracc_max_deflection_proxy_mm |->
             Round(cr.chest_deflection_mm, 1000),
         femur_load_kN |-> Round(cr.femur_force_kN, 1000),
         P_head |-> Round4(pr.p_head),
         P_neck |-> Round4(pr.p_neck),
         P_thorax_AIS3plus |-> Round4(pr.p_thorax),
         P_chest_A3ms_diag |-> Round4(pr.p_chest_accel_diag),
         P_femur_AIS2plus_proxy |-> Round4(pr.p_femur),
         injury_combination_model |-> "correlation_adjusted_union",
         injury_correlation_factor |->
             Round(inp.injury_correlation_factor, 10),
         injury_combination_details |-> comb[2],
         P_baseline |-> Round4(p_baseline),
         risk_score_0_100 |-> risk_score_0_100(p_baseline),
         crash_configuration |-> inp.crash_side,
         occupant_gender |-> inp.gender,
         occupant_mass_kg |-> inp.occupant_mass,
         occupant_height_m |-> inp.occupant_height,
         is_pregnant |-> inp.is_pregnant,
         vehicle_mass_kg |-> inp.vehicle_mass,
         crumple_zone_m |-> inp.crumple_zone_length,
         cabin_rigidity |-> inp.cabin_rigidity,
         intrusion_m |-> inp.intrusion,
         calculated_head_mass_kg |-> Round(inp.head_mass, 100),
         calculated_torso_mass_kg |-> Round(inp.torso_mass, 100),
         calculated_leg_mass_kg |-> Round(inp.leg_mass, 100),
         calculated_neck_lever_arm_m |-> Round(inp.neck_lever_arm, 10),
         seat_position |-> inp.seat_position,
         seat_distance_from_wheel_m |-> inp.seat_distance_from_wheel,
         seat_recline_angle_deg |-> inp.seat_recline_angle,
         seat_height_relative_to_dash_m |-> inp.seat_height_relative_to_dash,
         torso_length_m |-> Round(inp.torso_length, 10),
         neck_strength |-> inp.neck_strength,
         pelvis_lap_belt_fit |-> inp.pelvis_lap_belt_fit,
         assumptions |-> assumptions(inp, pl)]

\* Step 7: the correlated combination of head, neck, thorax and femur, and
\* self.results
calculate_all_results(inp, dv, pl, oc, cr, pr) ==
    results_with_combination(inp, dv, pl, oc, cr, pr,
        combine_injury_probabilities_correlated(
            <<pr.p_head, pr.p_neck, pr.p_thorax, pr.p_femur>>,
            inp.injury_correlation_factor))

\* The return of calculate_all, or the exception step 6 raised
calculate_all_return(inp, dv, pl, oc, cr, pr) ==
    IF pr.exc # "none" THEN pr
    ELSE Return(calculate_all_results(inp, dv, pl, oc, cr, pr.value))

\* calculate_all from step 5 on, from step 4 on, from step 2 on
calculate_all_from_crit(inp, dv, pl, oc, cr) ==
    calculate_all_return(inp, dv, pl, oc, cr, calculate_all_prob(cr))

calculate_all_from_occ(inp, dv, pl, oc) ==
    calculate_all_from_crit(inp, dv, pl, oc, calculate_all_crit(inp, pl, oc))

calculate_all_from_pulse(inp, dv, pl) ==
    calculate_all_from_occ(inp, dv, pl, calculate_all_occ(inp, pl))

calculate_all_from_delta_v(inp, dv) ==
    calculate_all_from_pulse(inp, dv, calculate_all_pulse(inp, dv))

\* calculate_all from its first step to its return, with no other thread
\* running in between: what it returns, or the exception it raises
calculate_all(inp) == calculate_all_from_delta_v(inp, compute_delta_v(inp))

\* calculate_baseline_risk: a new calculator, and its calculate_all
calculate_baseline_risk(inp) == calculate_all(inp)

\* ------------------------------------------------------------------------
\* A session: CrashInputs are constructed, calculate_all runs step by step,
\* and a second CrashInputs that differs in one constructor argument is
\* constructed and evaluated in turn (the comparisons of the test scripts).
\* ------------------------------------------------------------------------

\* calculate_all runs in a session
MaxEvaluations == 2

\* Impact speeds, m/s
Speeds == {0, 15000, 50000, 138900}

CrashSides == {"frontal", "side"}

\* The constructor arguments a session gives; the airbag that is varied is
\* the one relevant to the crash side, the other keeps its default.
Kwargs ==
    { [impact_speed |-> v, vehicle_mass |-> 15000000, crash_side |-> sd,
       gender |-> "male",
       seatbelt_used |-> sb,
       front_airbag |-> IF sd = "frontal" THEN ab
                        ELSE CrashInputsDefaults.front_airbag,
       side_airbag |-> IF sd = "frontal" THEN CrashInputsDefaults.side_airbag
                       ELSE ab,
       seatbelt_pretensioner |-> pt, seatbelt_load_limiter |-> ll,
       is_pregnant |-> pg] :
        v \in Speeds, sd \in CrashSides, sb \in BOOLEAN, ab \in BOOLEAN,
        pt \in BOOLEAN, ll \in BOOLEAN, pg \in BOOLEAN }

\* The field of the airbag relevant to a crash side
relevant_airbag(crash_side) ==
    IF crash_side = "frontal" THEN "front_airbag" ELSE "side_airbag"

VARIABLES
    kwargs,       \* the constructor arguments of inputs
    inputs,       \* self.inputs
    pc,           \* position in calculate_all: "step1" .. "step7", "done",
                  \* or "raised" once an exception has left it
    delta_v,      \* locals of calculate_all, <<>> until assigned
    pulse,
    occ,
    crit,
    prob,
    prev,         \* <<>> or <<[kwargs, inputs, crit, results]>> of the
                  \* evaluation before this one
    evaluations,  \* calculate_all runs started
    call,         \* a direct call of one method: its name and arguments
    ret,          \* <<>> until call returns, then <<what it returned>>
    returned,     \* the result dicts calculate_all has built and returned
                  \* so far, in the order they were built: [inputs, results]
    results_id,   \* the dict that self.results refers to: its position in
                  \* returned, 0 for the {} of __init__
    cache,        \* scraper/.cache: the cache file of each URL
    now,          \* datetime.now(), in hours
    fetched       \* the calls of fetch_html that have returned, in order

\* The state of the scraper
scraper_vars == <<cache, now, fetched>>

vars == <<kwargs, inputs, pc, delta_v, pulse, occ, crit, prob, results,
          results_id, prev, evaluations, call, ret, tables, other, returned,
          scraper_vars>>

Init ==
    /\ kwargs \in Kwargs
    /\ inputs = CrashInputs(kwargs)
    /\ pc = "step1"
    /\ delta_v = <<>>
    /\ pulse = <<>>
    /\ occ = <<>>
    /\ crit = <<>>
    /\ prob = <<>>
    /\ results = <<>>
    /\ prev = <<>>
    /\ evaluations = 1
    /\ call = <<>>
    /\ ret = <<>>
    /\ tables = ModuleTables
    /\ other = <<>>
    /\ returned = <<>>
    /\ results_id = 0
    /\ cache = <<>>
    /\ now = 0
    /\ fetched = <<>>

\* Step 1: delta-V
Step1 ==
    /\ pc = "step1"
    /\ delta_v' = compute_delta_v(inputs)
    /\ pc' = "step2"
    /\ UNCHANGED <<kwargs, inputs, pulse, occ, crit, prob, results, prev,
                   evaluations, call, ret, tables, other,
                   returned, results_id, scraper_vars>>

\* Steps 2 and 3: pulse characteristics and vehicle pulse
Step3 ==
    /\ pc = "step2"
    /\ pulse' = calculate_all_pulse(inputs, delta_v)
    /\ pc' = "step4"
    /\ UNCHANGED <<kwargs, inputs, delta_v, occ, crit, prob, results, prev,
                   evaluations, call, ret, tables, other,
                   returned, results_id, scraper_vars>>

\* Step 4: occupant pulse
Step4 ==
    /\ pc = "step4"
    /\ occ' = calculate_all_occ(inputs, pulse)
    /\ pc' = "step5"
    /\ UNCHANGED <<kwargs, inputs, delta_v, pulse, crit, prob, results, prev,
                   evaluations, call, ret, tables, other,
                   returned, results_id, scraper_vars>>

\* Step 5: injury criteria
Step5 ==
    /\ pc = "step5"
    /\ crit' = calculate_all_crit(inputs, pulse, occ)
    /\ pc' = "step6"
    /\ UNCHANGED <<kwargs, inputs, delta_v, pulse, occ, prob, results, prev,
                   evaluations, call, ret, tables, other,
                   returned, results_id, scraper_vars>>

\* Step 6: injury probabilities; an exception of _risk leaves calculate_all
\* before self.results is assigned.
Step6 ==
    /\ pc = "step6"
    /\ \E r \in {calculate_all_prob(crit)} :
           IF r.exc = "none"
           THEN prob' = r.value /\ pc' = "step7"
           ELSE prob' = prob /\ pc' = "raised"
    /\ UNCHANGED <<kwargs, inputs, delta_v, pulse, occ, crit, results, prev,
                   evaluations, call, ret, tables, other,
                   returned, results_id, scraper_vars>>

\* self.results.update({...}): the dict self.results refers to takes the new
\* items; a new dict only in place of the {} of __init__
update_results(dicts, ref, record) ==
    IF ref = 0 THEN <<Append(dicts, record), Len(dicts) + 1>>
    ELSE <<[dicts EXCEPT ![ref] = record], ref>>

\* self.results = {...}: a new dict is built, and self.results refers to it;
\* <<the dicts built so far, the one self.results refers to>>
assign_results(dicts, ref, record) ==
    <<Append(dicts, record), Len(dicts) + 1>>

\* Step 7: correlated combination, and self.results
Step7 ==
    /\ pc = "step7"
    /\ results' = calculate_all_results(inputs, delta_v, pulse, occ, crit, prob)
    /\ pc' = "done"
    /\ \E a \in {assign_results(returned, results_id,
                                 [inputs |-> inputs, results |-> results'])} :
           returned' = a[1] /\ results_id' = a[2]
    /\ UNCHANGED <<kwargs, inputs, delta_v, pulse, occ, crit, prob, prev,
                   evaluations, call, ret, tables, other, scraper_vars>>

\* A second CrashInputs is constructed from the same arguments but for
\* field, which takes value, and is evaluated from the start.
Construct(field, value) ==
    /\ pc = "done"
    /\ evaluations < MaxEvaluations
    /\ kwargs[field] # value
    /\ kwargs' = [kwargs EXCEPT ![field] = value]
    /\ inputs' = CrashInputs(kwargs')
    /\ prev' = <<[kwargs |-> kwargs, inputs |-> inputs, crit |-> crit,
                  prob |-> prob, results |-> results]>>
    /\ evaluations' = evaluations + 1
    /\ pc' = "step1"
    /\ delta_v' = <<>>
    /\ pulse' = <<>>
    /\ occ' = <<>>
    /\ crit' = <<>>
    /\ prob' = <<>>
    /\ results' = <<>>
    /\ results_id' = 0
    /\ UNCHANGED <<call, ret, tables, other, returned, scraper_vars>>

\* The same crash at a higher impact speed
RaiseSpeed ==
    \E v \in Speeds : v > kwargs.impact_speed /\ Construct("impact_speed", v)

\* The same crash with one more restraint, or with the occupant pregnant
SwitchOn ==
    \E f \in {"seatbelt_used", relevant_airbag(kwargs.crash_side),
              "seatbelt_pretensioner", "seatbelt_load_limiter",
              "is_pregnant"} :
        Construct(f, TRUE)

Next ==
    \/ Step1
    \/ Step3
    \/ Step4
    \/ Step5
    \/ Step6
    \/ Step7
    \/ RaiseSpeed
    \/ SwitchOn

Spec == Init /\ [][Next]_vars

\* ------------------------------------------------------------------------
\* Direct calls: one method is called on its own with arguments drawn from
\* the sets below, and returns.
\* ------------------------------------------------------------------------

\* Longest list of probabilities given to the combiner
MaxChannels == 4

\* Probabilities given to the combiner
UnitProbs == {0, 3820000, P \div 2, 99690000, P}

\* Correlation factors given to the combiner
UnitCorrFactors == {500, 7500, S, 15000}

RECURSIVE SeqsUpTo(_, _)
\* The sequences over set of length 1 to n
SeqsUpTo(set, n) ==
    IF n = 0 THEN {}
    ELSE [1..n -> set] \cup SeqsUpTo(set, n - 1)

\* Criterion values m 10^e given to _risk: for each curve, values inside
\* the clamp range, beyond each end of it, and far beyond it.
UnitValues ==
    [head_HIC15_AIS3plus_probit |->
         {<<-10000, 0>>, <<0, 0>>, <<6000, 0>>, <<73000, 0>>,
          <<17240000, 0>>, <<10000000, 3>>},
     neck_Nij_AIS3plus |->
         {<<-300000, 0>>, <<0, 0>>, <<10000, 0>>, <<300000, 0>>,
          <<100000, 3>>},
     thorax_irtracc_max_deflection_mm_AIS3plus |->
         {<<-50000000, 0>>, <<-3000000, 0>>, <<0, 0>>, <<470000, 0>>,
          <<3400000, 0>>},
     chest_A3ms |->
         {<<-100000000, 0>>, <<-6000000, 0>>, <<0, 0>>, <<600000, 0>>,
          <<7000000, 0>>},
     femur_force_kN_AIS2plus_proxy |->
         {<<-600000, 0>>, <<0, 0>>, <<12000, 0>>, <<750000, 0>>,
          <<100000, 3>>},
     no_such_criterion |-> {<<0, 0>>}]

RiskCalls ==
    UNION { { [op |-> "risk", criterion |-> c, m |-> v[1], e |-> v[2]] :
                v \in UnitValues[c] } : c \in DOMAIN UnitValues }

CombineCalls ==
    { [op |-> "combine", probabilities |-> ps, corr_factor |-> cf] :
        ps \in SeqsUpTo(UnitProbs, MaxChannels), cf \in UnitCorrFactors }

\* Crash sides given to _get_restraint_transfer_factor
UnitSides == {"frontal", "side", "rear", "left"}

AlphaCalls ==
    { [op |-> "get_restraint_transfer_factor",
       inputs |-> CrashInputs(
           [impact_speed |-> 138900, vehicle_mass |-> 15000000,
            crash_side |-> sd,
            seatbelt_used |-> sb, front_airbag |-> fa, side_airbag |-> sa,
            seatbelt_pretensioner |-> pt, seatbelt_load_limiter |-> ll])] :
        sd \in UnitSides, sb \in BOOLEAN, fa \in BOOLEAN, sa \in BOOLEAN,
        pt \in BOOLEAN, ll \in BOOLEAN }

\* Seat distances from the wheel given to _compute_chest_deflection: below,
\* at and above each of the thresholds 0.15 m and 0.50 m
UnitSeatDistances == {1000, 1500, 3000, 5000, 6000}

\* Peak occupant accelerations given to _compute_chest_deflection, m/s^2
UnitPeaks == {0, 1000000, 2000000}

ChestCalls ==
    { [op |-> "compute_chest_deflection",
       inputs |-> CrashInputs(
           [impact_speed |-> 138900, vehicle_mass |-> 15000000,
            crash_side |-> sd, front_airbag |-> fa,
            seat_distance_from_wheel |-> d, is_pregnant |-> pg]),
       a_occ_peak |-> a] :
        sd \in {"frontal", "side"}, fa \in BOOLEAN, d \in UnitSeatDistances,
        pg \in BOOLEAN, a \in UnitPeaks }

\* Seat recline angles given to _compute_nij, degrees: the range the request
\* model allows, and angles that make the recline factor 0 and negative
UnitReclineAngles == {0, 250000, 600000, -1000000, -1500000}

\* Occupant accelerations of a sample, m/s^2
UnitAccelerations == {-500000, 0, 500000}

\* Time arrays given to _compute_nij: 1 ms steps, one sample only, and a
\* repeated time
UnitTimeArrays == {<<0, 10000, 20000>>, <<0>>, <<0, 0, 0>>}

NijCalls ==
    UNION { { [op |-> "compute_nij",
               inputs |-> CrashInputs(
                   [impact_speed |-> 138900, vehicle_mass |-> 15000000,
                    crash_side |-> "frontal", seat_recline_angle |-> r,
                    neck_strength |-> ns]),
               time_array |-> t,
               a_occ |-> a] :
                r \in UnitReclineAngles, ns \in {"weak", "average"},
                a \in [1..Len(t) -> UnitAccelerations] } :
            t \in UnitTimeArrays }

InitUnit ==
    /\ call \in RiskCalls \cup CombineCalls \cup AlphaCalls \cup ChestCalls
               \cup NijCalls
    /\ ret = <<>>
    /\ kwargs = <<>>
    /\ inputs = <<>>
    /\ pc = "unit"
    /\ delta_v = <<>>
    /\ pulse = <<>>
    /\ occ = <<>>
    /\ crit = <<>>
    /\ prob = <<>>
    /\ results = <<>>
    /\ prev = <<>>
    /\ evaluations = 0
    /\ tables = ModuleTables
    /\ other = <<>>
    /\ returned = <<>>
    /\ results_id = 0
    /\ cache = <<>>
    /\ now = 0
    /\ fetched = <<>>

session_vars == <<kwargs, inputs, pc, delta_v, pulse, occ, crit, prob,
                  results, results_id, prev, evaluations>>

\* _risk(criterion, value) returns or raises
CallRisk ==
    /\ call.op = "risk"
    /\ ret = <<>>
    /\ ret' = <<risk_scaled(call.criterion, call.m, call.e)>>
    /\ UNCHANGED <<call, session_vars, tables, other, returned,
                   scraper_vars>>

\* _combine_injury_probabilities_correlated(probabilities, corr_factor)
\* returns
CallCombine ==
    /\ call.op = "combine"
    /\ ret = <<>>
    /\ ret' = <<combine_injury_probabilities_correlated(
                    call.probabilities, call.corr_factor)>>
    /\ UNCHANGED <<call, session_vars, tables, other, returned,
                   scraper_vars>>

\* _get_restraint_transfer_factor() returns
CallAlpha ==
    /\ call.op = "get_restraint_transfer_factor"
    /\ ret = <<>>
    /\ ret' = <<get_restraint_transfer_factor(call.inputs)>>
    /\ UNCHANGED <<call, session_vars, tables, other, returned,
                   scraper_vars>>

\* _compute_chest_deflection(a_occ_peak) returns
CallChestDeflection ==
    /\ call.op = "compute_chest_deflection"
    /\ ret = <<>>
    /\ ret' = <<compute_chest_deflection(call.inputs, call.a_occ_peak)>>
    /\ UNCHANGED <<call, session_vars, tables, other, returned,
                   scraper_vars>>

\* _compute_nij(time_array, a_occ_mps2) returns
CallNij ==
    /\ call.op = "compute_nij"
    /\ ret = <<>>
    /\ ret' = <<compute_nij(call.inputs, call.time_array, call.a_occ)>>
    /\ UNCHANGED <<call, session_vars, tables, other, returned,
                   scraper_vars>>

NextUnit ==
    \/ CallRisk
    \/ CallCombine
    \/ CallAlpha
    \/ CallChestDeflection
    \/ CallNij

SpecUnit == InitUnit /\ [][NextUnit]_vars

\* ------------------------------------------------------------------------
\* Two threads: each has its own CrashInputs and calculator and runs
\* calculate_all step by step; the interpreter switches between them at any
\* step.  A thread whose calculate_all has returned may evaluate again: the
\* same CrashInputs with a new calculator, the same calculator once more, or
\* the CrashInputs after attribute assignments (tests/test_integration.py).
\* ------------------------------------------------------------------------

\* calculate_all runs started, over both threads
MaxRuns == 3

\* The constructor arguments of the first thread: correlation factors below,
\* inside and above the combiner's range [0.1, 1.0], and mass overrides
SharedKwargs ==
    { [impact_speed |-> k[1], vehicle_mass |-> 15000000, crash_side |-> k[2],
       gender |-> "male", injury_correlation_factor |-> k[3],
       head_mass |-> k[4], leg_mass |-> k[5]] :
        k \in { <<138900, "frontal", DEFAULT_INJURY_CORRELATION_FACTOR,
                  None, None>>,
                <<50000, "side", 500, None, None>>,
                <<138900, "frontal", 15000, None, None>>,
                <<50000, "frontal", 7777, None, None>>,
                <<138900, "frontal", DEFAULT_INJURY_CORRELATION_FACTOR,
                  Some(50000), Some(0)>> } }

\* The constructor arguments of the second thread
OtherKwargs ==
    [impact_speed |-> 100000, vehicle_mass |-> 15000000, crash_side |-> "side",
     gender |-> "female", injury_correlation_factor |-> S,
     head_mass |-> None, leg_mass |-> None]

\* The calibration tables with the curve of one criterion left out
without_curve(criterion) ==
    [ModuleTables EXCEPT !.RISK_CURVES =
        [c \in DOMAIN RISK_CURVES \ {criterion} |-> RISK_CURVES[c]]]

\* The calibration tables a process may have loaded: the module's, or a
\* calibration set that lacks a criterion calculate_all asks for.
CalibrationSets ==
    {ModuleTables, without_curve("neck_Nij_AIS3plus"),
     without_curve("femur_force_kN_AIS2plus_proxy")}

\* What a thread holds: its CrashInputs, its calculator's results, and the
\* position and locals of its calculate_all
context ==
    [kwargs |-> kwargs, inputs |-> inputs, pc |-> pc, delta_v |-> delta_v,
     pulse |-> pulse, occ |-> occ, crit |-> crit, prob |-> prob,
     results |-> results, results_id |-> results_id]

\* A thread about to enter calculate_all of a new calculator
new_context(kw) ==
    [kwargs |-> kw, inputs |-> CrashInputs(kw), pc |-> "step1",
     delta_v |-> <<>>, pulse |-> <<>>, occ |-> <<>>, crit |-> <<>>,
     prob |-> <<>>, results |-> <<>>, results_id |-> 0]

InitShared ==
    /\ kwargs \in SharedKwargs
    /\ tables \in CalibrationSets
    /\ tables # ModuleTables => kwargs.injury_correlation_factor = 15000
    /\ inputs = CrashInputs(kwargs)
    /\ pc = "step1"
    /\ delta_v = <<>>
    /\ pulse = <<>>
    /\ occ = <<>>
    /\ crit = <<>>
    /\ prob = <<>>
    /\ results = <<>>
    /\ prev = <<>>
    /\ evaluations = 2
    /\ call = <<>>
    /\ ret = <<>>
    /\ other = <<new_context(OtherKwargs)>>
    /\ returned = <<>>
    /\ results_id = 0
    /\ cache = <<>>
    /\ now = 0
    /\ fetched = <<>>

\* The interpreter switches to the other thread.
Yield ==
    /\ Len(other) = 1
    /\ kwargs' = other[1].kwargs
    /\ inputs' = other[1].inputs
    /\ pc' = other[1].pc
    /\ delta_v' = other[1].delta_v
    /\ pulse' = other[1].pulse
    /\ occ' = other[1].occ
    /\ crit' = other[1].crit
    /\ prob' = other[1].prob
    /\ results' = other[1].results
    /\ results_id' = other[1].results_id
    /\ other' = <<context>>
    /\ UNCHANGED <<prev, evaluations, call, ret, tables, returned,
                   scraper_vars>>

\* calculate_all is entered again by the running thread: its locals are new,
\* and self.results is results_at_entry, the dict results_id_at_entry.
Enter(inputs_at_entry, results_at_entry, results_id_at_entry) ==
    /\ pc = "done"
    /\ evaluations < MaxRuns
    /\ inputs' = inputs_at_entry
    /\ results' = results_at_entry
    /\ results_id' = results_id_at_entry
    /\ evaluations' = evaluations + 1
    /\ pc' = "step1"
    /\ delta_v' = <<>>
    /\ pulse' = <<>>
    /\ occ' = <<>>
    /\ crit' = <<>>
    /\ prob' = <<>>
    /\ UNCHANGED <<kwargs, prev, call, ret, tables, other, returned,
                   scraper_vars>>

\* calculate_baseline_risk(inputs) once more: a new calculator for the same
\* CrashInputs
Again == Enter(inputs, <<>>, 0)

\* calculator.calculate_all() once more on the same calculator
Recalculate == Enter(inputs, results, results_id)

\* Test 1.2: inputs.gender, inputs.occupant_mass and inputs.occupant_height
\* are assigned, and calculate_baseline_risk(inputs) is called again.
MutateOccupant ==
    /\ inputs.gender # "female"
    /\ Enter([inputs EXCEPT !.gender = "female", !.occupant_mass = 650000,
                            !.occupant_height = 16500],
             <<>>, 0)

NextShared ==
    \/ Step1
    \/ Step3
    \/ Step4
    \/ Step5
    \/ Step6
    \/ Step7
    \/ Yield
    \/ Again
    \/ Recalculate
    \/ MutateOccupant

SpecShared == InitShared /\ [][NextShared]_vars

\* ------------------------------------------------------------------------
\* models/carDataModel.py, models/dummyDataModel.py: request validation.
\* A JSON object is a record; the value of an Optional field is None for a
\* JSON null and Some(v) otherwise; numbers are held at scale S.
\* ------------------------------------------------------------------------

\* v is None, or lies in lo..hi (the ge / le of an Optional[float] field)
optional_in(v, lo, hi) == v = None \/ (Get(v) >= lo /\ Get(v) <= hi)

\* CarDataModel(**car): the validated model, or ValidationError
CarDataModel(car) ==
    IF /\ car.impact_speed_kmh >= 0
       /\ car.impact_speed_kmh <= 200 * S
       /\ car.crash_side \in {"frontal", "left", "right"}
       /\ car.vehicle_mass_kg >= 500 * S
       /\ car.vehicle_mass_kg <= 5000 * S
       /\ optional_in(car.crumple_zone_length_m, 1000, S)
       /\ (car.cabin_rigidity = None
           \/ Get(car.cabin_rigidity) \in {"low", "medium", "high"})
       /\ optional_in(car.intrusion_cm, 0, 50 * S)
    THEN Return([f \in {"impact_speed_kmh", "crash_side", "vehicle_mass_kg",
                        "crumple_zone_length_m", "cabin_rigidity",
                        "intrusion_cm", "seatbelt_used",
                        "seatbelt_pretensioner", "seatbelt_load_limiter",
                        "front_airbag", "side_airbag"} |-> car[f]])
    ELSE Raise("ValidationError")

\* The fields DummyDataModel declares; any other key of the JSON object is
\* ignored by pydantic and is no attribute of the model.
DummyDataModelFields ==
    {"occupant_mass_kg", "occupant_height_m", "gender", "is_pregnant",
     "seat_distance_from_wheel_cm", "seat_recline_angle_deg",
     "seat_height_relative_to_dash_cm", "neck_strength"}

\* DummyDataModel(**dummy): the validated model, or ValidationError
DummyDataModel(dummy) ==
    IF /\ dummy.occupant_mass_kg >= 40 * S
       /\ dummy.occupant_mass_kg <= 150 * S
       /\ dummy.occupant_height_m >= 14000
       /\ dummy.occupant_height_m <= 21000
       /\ dummy.gender \in {"male", "female"}
       /\ optional_in(dummy.seat_distance_from_wheel_cm, 10 * S, 80 * S)
       /\ optional_in(dummy.seat_recline_angle_deg, 0, 60 * S)
       /\ optional_in(dummy.seat_height_relative_to_dash_cm, -15 * S, 20 * S)
       /\ (dummy.neck_strength = None
           \/ Get(dummy.neck_strength) \in {"weak", "average", "strong"})
    THEN Return([f \in DummyDataModelFields |-> dummy[f]])
    ELSE Raise("ValidationError")

\* ------------------------------------------------------------------------
\* api/routes.py (the definitions in force once the module has run)
\* ------------------------------------------------------------------------

\* The exception that evaluating the keyword arguments of the CrashInputs
\* call raises, in the order they are written, "none" if none does:
\* None / 100 is a TypeError, an attribute the model does not have an
\* AttributeError.
transform_argument_error(car_data, dummy_data) ==
    IF dummy_data.seat_distance_from_wheel_cm = None THEN "TypeError"
    ELSE IF dummy_data.seat_height_relative_to_dash_cm = None THEN "TypeError"
    ELSE IF "seat_position" \notin DOMAIN dummy_data THEN "AttributeError"
    ELSE IF "pelvis_lap_belt_fit" \notin DOMAIN dummy_data
    THEN "AttributeError"
    ELSE IF car_data.intrusion_cm = None THEN "TypeError"
    ELSE "none"

\* transform_request_to_crash_inputs: the CrashInputs, or the exception
\* raised on the way; neck_strength.lower() in CrashInputs.__init__ is an
\* AttributeError for None.  seat_recline_angle, crumple_zone_length and
\* cabin_rigidity are stored as they come, None included.
transform_request_to_crash_inputs(car_data, dummy_data) ==
    LET exc == transform_argument_error(car_data, dummy_data)
    IN  IF exc # "none" THEN Raise(exc)
        ELSE IF dummy_data.neck_strength = None THEN Raise("AttributeError")
        ELSE Return(CrashInputs(
            [impact_speed |-> Div(car_data.impact_speed_kmh, 36000),
             vehicle_mass |-> car_data.vehicle_mass_kg,
             crash_side |-> car_data.crash_side,
             coefficient_restitution |-> 0,
             occupant_mass |-> dummy_data.occupant_mass_kg,
             occupant_height |-> dummy_data.occupant_height_m,
             gender |-> dummy_data.gender,
             is_pregnant |-> dummy_data.is_pregnant,
             seat_distance_from_wheel |->
                 Scale(Get(dummy_data.seat_distance_from_wheel_cm), 100),
             seat_recline_angle |-> dummy_data.seat_recline_angle_deg,
             seat_height_relative_to_dash |->
                 Scale(Get(dummy_data.seat_height_relative_to_dash_cm), 100),
             neck_strength |-> Get(dummy_data.neck_strength),
             seat_position |-> dummy_data.seat_position,
             pelvis_lap_belt_fit |-> dummy_data.pelvis_lap_belt_fit,
             seatbelt_used |-> car_data.seatbelt_used,
             seatbelt_pretensioner |-> car_data.seatbelt_pretensioner,
             seatbelt_load_limiter |-> car_data.seatbelt_load_limiter,
             front_airbag |-> car_data.front_airbag,
             side_airbag |-> car_data.side_airbag,
             crumple_zone_length |-> car_data.crumple_zone_length_m,
             cabin_rigidity |-> car_data.cabin_rigidity,
             intrusion |-> Scale(Get(car_data.intrusion_cm), 100)]))

\* calculate_baseline_risk for a CrashInputs built by the transformation:
\* float(self.inputs.seat_recline_angle) in _compute_nij is a TypeError for
\* None.
calculate_transformed(crash_inputs) ==
    IF crash_inputs.seat_recline_angle = None THEN Raise("TypeError")
    ELSE calculate_baseline_risk(
             [crash_inputs EXCEPT !.seat_recline_angle = Get(@)])

\* The keys of results that format_response subscripts
FormatResponseReads ==
    {"risk_score_0_100", "HIC15", "Nij", "chest_A3ms_g",
     "chest_deflection_mm", "femur_load_kN", "P_head", "P_neck", "P_chest",
     "P_femur", "P_baseline", "delta_v_mps", "pulse_duration_s",
     "pulse_type", "peak_accel_g", "restraint_type",
     "restraint_transfer_factor", "occupant_mass_kg", "occupant_height_m",
     "occupant_gender", "is_pregnant", "calculated_head_mass_kg",
     "calculated_torso_mass_kg", "calculated_leg_mass_kg",
     "calculated_neck_lever_arm_m", "seat_distance_from_wheel_m",
     "seat_recline_angle_deg", "seat_height_relative_to_dash_m",
     "torso_length_m", "neck_strength", "crash_configuration",
     "vehicle_mass_kg", "crumple_zone_m", "cabin_rigidity", "intrusion_m",
     "assumptions"}

\* format_response: results[key] is a KeyError for a key results lacks.
format_response(res) ==
    IF FormatResponseReads \ DOMAIN res # {} THEN Raise("KeyError")
    ELSE Return(
        [success |-> TRUE,
         risk_score |-> res.risk_score_0_100,
         injury_criteria |->
             [k \in {"HIC15", "Nij", "chest_A3ms_g", "chest_deflection_mm",
                     "femur_load_kN"} |-> res[k]],
         injury_probabilities |->
             [k \in {"P_head", "P_neck", "P_chest", "P_femur", "P_baseline"}
                 |-> res[k]],
         crash_dynamics |->
             [k \in {"delta_v_mps", "pulse_duration_s", "pulse_type",
                     "peak_accel_g", "restraint_type",
                     "restraint_transfer_factor"} |-> res[k]],
         occupant_biomechanics |->
             [k \in {"occupant_mass_kg", "occupant_height_m",
                     "occupant_gender", "is_pregnant",
                     "calculated_head_mass_kg", "calculated_torso_mass_kg",
                     "calculated_leg_mass_kg", "calculated_neck_lever_arm_m"}
                 |-> res[k]],
         seating_position |->
             [k \in {"seat_distance_from_wheel_m", "seat_recline_angle_deg",
                     "seat_height_relative_to_dash_m", "torso_length_m",
                     "neck_strength"} |-> res[k]],
         vehicle_details |->
             [k \in {"crash_configuration", "vehicle_mass_kg",
                     "crumple_zone_m", "cabin_rigidity", "intrusion_m"}
                 |-> res[k]],
         assumptions |-> res.assumptions,
         full_results |-> res])

\* A response: its status, its JSON body, and the collaborators that were
\* invoked while it was made
Response(status, body, invoked) ==
    [status |-> status, body |-> body, invoked |-> invoked]

\* request.get_json(): the parsed body; for a body that is no JSON (an empty
\* body among them) Flask raises BadRequest.
get_json(request) ==
    IF request.body = "empty" THEN Raise("BadRequest")
    ELSE Return(request.json)

\* `not data`: None, and the empty object
falsy(data) == data.kind = "null" \/ DOMAIN data.members = {}

\* The body of the outer `except Exception`
internal_server_error(invoked) ==
    Response(500, [success |-> FALSE, error |-> "Internal server error"],
             invoked)

no_json_data ==
    Response(400, [success |-> FALSE, error |-> "No JSON data provided"], {})

validation_error ==
    Response(400, [success |-> FALSE, error |-> "Validation error"], {})

calculation_error ==
    Response(500, [success |-> FALSE, error |-> "Calculation error"],
             {"calculator"})

\* The models of the request, or the response of the handler that could not
\* make them: car_data = CarDataModel(**data.get('car_data', {})) and the
\* same for dummy_data; the required fields make {} a ValidationError.
validated(data) ==
    IF {"car_data", "dummy_data"} \ DOMAIN data.members # {}
    THEN Raise("ValidationError")
    ELSE LET car_data == CarDataModel(data.members.car_data)
             dummy_data == DummyDataModel(data.members.dummy_data)
         IN  IF car_data.exc # "none" THEN car_data
             ELSE IF dummy_data.exc # "none" THEN dummy_data
             ELSE Return([car_data |-> car_data.value,
                          dummy_data |-> dummy_data.value])

\* calculate_crash_risk once the calculation has returned results or raised
calculate_crash_risk_respond(results_or_raise) ==
    IF results_or_raise.exc # "none" THEN calculation_error
    ELSE LET response == format_response(results_or_raise.value)
         IN  IF response.exc # "none"
             THEN internal_server_error({"calculator"})
             ELSE Response(200, response.value, {"calculator"})

\* calculate_crash_risk, the view of POST /crash-risk/calculate
calculate_crash_risk(request) ==
    LET data == get_json(request)
    IN  IF data.exc # "none" THEN internal_server_error({})
        ELSE IF falsy(data.value) THEN no_json_data
        ELSE
    LET models == validated(data.value)
    IN  IF models.exc # "none" THEN validation_error
        ELSE
    LET crash_inputs == transform_request_to_crash_inputs(
                            models.value.car_data, models.value.dummy_data)
    IN  IF crash_inputs.exc # "none" THEN internal_server_error({})
        ELSE
        calculate_crash_risk_respond(
            calculate_transformed(crash_inputs.value))

\* ------------------------------------------------------------------------
\* modeling/geminiAPI.py
\* ------------------------------------------------------------------------

\* A Python float: a number held at scale S, or nan, inf, -inf; json.loads
\* reads NaN, Infinity and -Infinity as these.  Null is a JSON null.
Float(v) == [k |-> "num", v |-> v]

NaN == [k |-> "nan", v |-> 0]

Inf == [k |-> "inf", v |-> 0]

NegInf == [k |-> "-inf", v |-> 0]

Null == [k |-> "null", v |-> 0]

\* abs(x - b) > d for a float x and numbers b, d: False for nan
deviates(x, b, d) ==
    CASE x.k = "num" -> Abs(x.v - b) > d
      [] x.k = "nan" -> FALSE
      [] OTHER -> TRUE

\* x < b for a float x and a number b
float_lt(x, b) ==
    CASE x.k = "num" -> x.v < b
      [] x.k = "-inf" -> TRUE
      [] OTHER -> FALSE

\* x > b for a float x and a number b
float_gt(x, b) ==
    CASE x.k = "num" -> x.v > b
      [] x.k = "inf" -> TRUE
      [] OTHER -> FALSE

\* max_deviation = 20.0
MAX_DEVIATION == 20 * S

\* The risk score after the validation against the baseline
clamp_to_baseline(risk_score, baseline_risk) ==
    IF deviates(risk_score, baseline_risk, MAX_DEVIATION)
    THEN IF float_lt(risk_score, baseline_risk - MAX_DEVIATION)
         THEN Float(baseline_risk - MAX_DEVIATION)
         ELSE IF float_gt(risk_score, baseline_risk + MAX_DEVIATION)
         THEN Float(baseline_risk + MAX_DEVIATION)
         ELSE risk_score
    ELSE risk_score

\* parse_gemini_response: reply.json tells whether the text is JSON,
\* reply.data is the object read from it.
parse_gemini_response(reply, baseline_risk) ==
    IF ~reply.json THEN Raise("ValueError")
    ELSE IF {"risk_score", "confidence", "explanation"} \ DOMAIN reply.data
            # {}
    THEN Raise("ValueError")
    ELSE IF reply.data.risk_score = Null THEN Raise("TypeError")
    ELSE Return(
        [risk_score |-> clamp_to_baseline(reply.data.risk_score,
                                          baseline_risk),
         confidence |-> IF reply.data.confidence > S
                        THEN Scale(reply.data.confidence, 100)
                        ELSE reply.data.confidence,
         explanation |-> reply.data.explanation])

\* baseline_results.get('risk_score_0_100', 50)
baseline_risk_of(baseline_results) ==
    IF "risk_score_0_100" \in DOMAIN baseline_results
    THEN baseline_results.risk_score_0_100
    ELSE 50 * S

\* _create_fallback_analysis
create_fallback_analysis(baseline_results) ==
    [risk_score |-> Float(baseline_risk_of(baseline_results)),
     confidence |-> 7000,
     explanation |-> "fallback"]

max_retries == 3

\* seconds
retry_delay == 2

\* str(e) of an exception of generate_content or response.text: whether it
\* holds "quota" in any case, and whether it holds "429"
ErrorMessage(quota, code_429) == [quota |-> quota, code_429 |-> code_429]

\* "quota" in error_msg.lower() or "429" in error_msg
is_quota_error(error_msg) == error_msg.quota \/ error_msg.code_429

\* An attempt in which generate_content returns and response.text is read
AttemptText == [kind |-> "text"]

\* An attempt in which generate_content or response.text raises
AttemptRaises(error_msg) == [kind |-> "raise", error_msg |-> error_msg]

\* What the successive attempts do, given what the narrative API does
\* (env.gemini): "call_error" (every call raises an error that is no quota
\* error), "quota" (every call raises a quota error), "reply" (every call
\* answers env.reply), or "attempts", with env.attempts the attempts.
attempts_of(env) ==
    CASE env.gemini = "attempts" -> env.attempts
      [] env.gemini = "call_error" ->
           [i \in 1..max_retries |->
               AttemptRaises(ErrorMessage(FALSE, FALSE))]
      [] env.gemini = "quota" ->
           [i \in 1..max_retries |->
               AttemptRaises(ErrorMessage(TRUE, FALSE))]
      [] OTHER -> [i \in 1..max_retries |-> AttemptText]

RECURSIVE generate_retrying_any_error(_, _, _)
\* The retry loop retrying after every exception
generate_retrying_any_error(attempts, attempt, slept) ==
    IF attempts[attempt + 1].kind = "text"
    THEN [left |-> "break", calls |-> attempt + 1, slept |-> slept]
    ELSE IF attempt < max_retries - 1
    THEN generate_retrying_any_error(
             attempts, attempt + 1,
             Append(slept, retry_delay * 2 ^ attempt))
    ELSE [left |-> "return", calls |-> attempt + 1, slept |-> slept]

RECURSIVE generate_with_retries(_, _, _)
\* for attempt in range(max_retries), from attempt on, slept being the waits
\* so far: how the loop is left (break, return of the fallback, raise), the
\* calls of generate_content made, and the waits in seconds
generate_with_retries(attempts, attempt, slept) ==
    IF attempts[attempt + 1].kind = "text"
    THEN [left |-> "break", calls |-> attempt + 1, slept |-> slept]
    ELSE IF is_quota_error(attempts[attempt + 1].error_msg)
    THEN IF attempt < max_retries - 1
         THEN generate_with_retries(
                  attempts, attempt + 1,
                  Append(slept, retry_delay * 2 ^ attempt))
         ELSE [left |-> "return", calls |-> attempt + 1, slept |-> slept]
    ELSE [left |-> "raise", calls |-> attempt + 1, slept |-> slept]

\* What analyze_with_gemini does once the retry loop is left as loop
analyze_after_loop(baseline_results, env, loop) ==
    CASE loop.left = "break" ->
           parse_gemini_response(env.reply,
                                 baseline_risk_of(baseline_results))
      [] loop.left = "return" ->
           Return(create_fallback_analysis(baseline_results))
      [] OTHER -> Raise("Exception")

\* A return or exception of analyze_with_gemini, with the calls of
\* generate_content it made and the waits between them
after_calls(result, calls, slept) ==
    [exc |-> result.exc, value |-> result.value, calls |-> calls,
     slept |-> slept]

\* analyze_with_gemini; env.gemini is what the narrative API does:
\* "not_configured" (no API key), or as attempts_of reads it.
analyze_with_gemini(baseline_results, env) ==
    IF env.gemini = "not_configured"
    THEN after_calls(Raise("ValueError"), 0, <<>>)
    ELSE LET loop == generate_with_retries(attempts_of(env), 0, <<>>)
         IN  after_calls(analyze_after_loop(baseline_results, env, loop),
                         loop.calls, loop.slept)

\* The attributes of class Config (config/settings.py)
Config ==
    {"DEBUG", "SECRET_KEY", "API_VERSION", "API_TITLE", "CORS_ORIGINS",
     "GEMINI_API_KEY", "GEMINI_MODEL", "MAX_IMPACT_SPEED_KMH",
     "MIN_OCCUPANT_MASS_KG", "MAX_OCCUPANT_MASS_KG", "LOG_LEVEL"}

\* format_analysis_for_response: Config.PRODUCTION_SAFETY_THRESHOLD is an
\* AttributeError when Config has no such attribute.
format_analysis_for_response(result, baseline_results, scraped_context) ==
    IF "PRODUCTION_SAFETY_THRESHOLD" \notin Config
    THEN Raise("AttributeError")
    ELSE Return([success |-> TRUE,
                 risk_score |-> result.risk_score,
                 confidence |-> result.confidence,
                 explanation |-> result.explanation,
                 safe_for_production |-> TRUE,
                 full_baseline_results |-> baseline_results,
                 data_sources |-> scraped_context])

\* ------------------------------------------------------------------------
\* api/routes.py: evaluate_crash
\* ------------------------------------------------------------------------

\* convert_to_scraper_models reads dummy_data.seat_position and
\* dummy_data.pelvis_lap_belt_fit.
convert_to_scraper_models(car_data, dummy_data) ==
    IF {"seat_position", "pelvis_lap_belt_fit"} \ DOMAIN dummy_data # {}
    THEN Raise("AttributeError")
    ELSE Return([crash_side |-> car_data.crash_side,
                 gender |-> dummy_data.gender])

\* The body when the narrative step raised: the baseline alone
baseline_only(error, baseline_results, scraped_context) ==
    [success |-> TRUE,
     error |-> error,
     risk_score |-> Float(IF "risk_score_0_100" \in DOMAIN baseline_results
                          THEN baseline_results.risk_score_0_100 ELSE 0),
     confidence |-> 5000,
     baseline_results |-> baseline_results,
     scraped_context |-> scraped_context]

\* Step 3 of evaluate_crash: the body, and whether gemini_result was
\* assigned
narrative_step(baseline_results, scraped_context, env) ==
    LET gemini_result == analyze_with_gemini(baseline_results, env)
        response == format_analysis_for_response(
                        gemini_result.value, baseline_results,
                        scraped_context)
    IN  IF gemini_result.exc = "ValueError"
        THEN [body |-> baseline_only("Gemini API not configured",
                                     baseline_results, scraped_context),
              gemini_result |-> FALSE]
        ELSE IF gemini_result.exc # "none"
        THEN [body |-> baseline_only("Gemini analysis failed",
                                     baseline_results, scraped_context),
              gemini_result |-> FALSE]
        ELSE IF response.exc # "none"
        THEN [body |-> baseline_only("Gemini analysis failed",
                                     baseline_results, scraped_context),
              gemini_result |-> TRUE]
        ELSE [body |-> response.value, gemini_result |-> TRUE]

\* Step 4 of evaluate_crash: response with the outcome of the save added
save_step(body, env) ==
    LET with(f, v) == [k \in DOMAIN body \cup {f} |->
                          IF k = f THEN v ELSE body[k]]
    IN  IF env.save = "ok" THEN with("saved", TRUE)
        ELSE [k \in DOMAIN body \cup {"saved", "save_error"} |->
                 IF k = "saved" THEN FALSE
                 ELSE IF k = "save_error" THEN "error" ELSE body[k]]

\* evaluate_crash once the calculation has returned results or raised:
\* steps 2 to 4
evaluate_crash_respond(car_data, dummy_data, baseline_results, env) ==
    IF baseline_results.exc # "none" THEN calculation_error
    ELSE IF convert_to_scraper_models(car_data, dummy_data).exc # "none"
    THEN internal_server_error({"calculator"})
    ELSE LET scraped_context == IF env.scraper = "ok" THEN "scraped"
                                ELSE "External data unavailable"
             narrative == narrative_step(baseline_results.value,
                                         scraped_context, env)
         IN  Response(200, save_step(narrative.body, env),
                      {"calculator", "scraper", "gemini", "persistence"})

\* evaluate_crash, the view of POST /evaluate-crash; env is what the
\* collaborators do (env.scraper, env.gemini, env.reply, env.save).
evaluate_crash(request, env) ==
    LET data == get_json(request)
    IN  IF data.exc # "none" THEN internal_server_error({})
        ELSE IF falsy(data.value) THEN no_json_data
        ELSE
    LET models == validated(data.value)
    IN  IF models.exc # "none" THEN validation_error
        ELSE
    LET car_data == models.value.car_data
        dummy_data == models.value.dummy_data
        crash_inputs == transform_request_to_crash_inputs(car_data,
                                                          dummy_data)
    IN  IF crash_inputs.exc # "none" THEN internal_server_error({})
        ELSE
        evaluate_crash_respond(car_data, dummy_data,
            calculate_transformed(crash_inputs.value), env)

\* The rules of the blueprint that the first half of routes.py builds, and
\* of the one the second half builds; the name api_blueprint is bound to the
\* second when main.py imports it.
first_blueprint ==
    {<<"POST", "/crash-risk/calculate">>, <<"POST", "/crash-risk/analyze">>,
     <<"POST", "/evaluate-crash">>, <<"GET", "/test/example-crash">>,
     <<"GET", "/health">>}

api_blueprint ==
    {<<"POST", "/evaluate-crash">>, <<"GET", "/history">>,
     <<"GET", "/history/<simulation_id>">>,
     <<"DELETE", "/history/<simulation_id>">>, <<"GET", "/health">>}

\* main.py: the 404 handler
not_found ==
    Response(404, [success |-> FALSE, error |-> "Endpoint not found"], {})

\* The response of the application to a request: the view of the rule
\* registered under /api that matches (of these only evaluate_crash is
\* modelled in full), the 404 handler if none does.
full_dispatch_request(request, env) ==
    IF <<request.method, request.rule>> \notin api_blueprint THEN not_found
    ELSE IF request.rule = "/evaluate-crash"
    THEN evaluate_crash(request, env)
    ELSE Response(200, [success |-> TRUE], {})

\* routes.py 590-592: the transformation, then the calculation on what it
\* returns
baseline_of_request(car_data, dummy_data) ==
    LET crash_inputs == transform_request_to_crash_inputs(car_data,
                                                          dummy_data)
    IN  IF crash_inputs.exc # "none" THEN crash_inputs
        ELSE calculate_transformed(crash_inputs.value)

\* ------------------------------------------------------------------------
\* The API: one request, or one call of a function of the API layer, and
\* what it returns.
\* ------------------------------------------------------------------------

\* The car_data of a request
CarJson(speed, side, intrusion) ==
    [impact_speed_kmh |-> speed,
     crash_side |-> side,
     vehicle_mass_kg |-> 1500 * S,
     crumple_zone_length_m |-> Some(5000),
     cabin_rigidity |-> Some("medium"),
     intrusion_cm |-> intrusion,
     seatbelt_used |-> TRUE,
     seatbelt_pretensioner |-> FALSE,
     seatbelt_load_limiter |-> FALSE,
     front_airbag |-> TRUE,
     side_airbag |-> FALSE]

CarJsons ==
    { CarJson(speed, side, intrusion) :
        speed \in {0, 50 * S, 200 * S, 999 * S},
        side \in {"frontal", "left", "right", "rear"},
        intrusion \in {None, Some(0)} }

\* The dummy_data of a request: with or without the keys seat_position and
\* pelvis_lap_belt_fit, which the tests send
DummyJson(extra, mass, distance, recline, neck) ==
    LET declared == [occupant_mass_kg |-> mass,
                     occupant_height_m |-> 17500,
                     gender |-> "male",
                     is_pregnant |-> FALSE,
                     seat_distance_from_wheel_cm |-> distance,
                     seat_recline_angle_deg |-> recline,
                     seat_height_relative_to_dash_cm |-> Some(0),
                     neck_strength |-> neck]
    IN  IF extra
        THEN [k \in DOMAIN declared \cup
                    {"seat_position", "pelvis_lap_belt_fit"} |->
                 CASE k = "seat_position" -> "driver"
                   [] k = "pelvis_lap_belt_fit" -> "average"
                   [] OTHER -> declared[k]]
        ELSE declared

DummyJsons ==
    { DummyJson(extra, mass, distance, recline, neck) :
        extra \in BOOLEAN,
        mass \in {30 * S, 75 * S},
        distance \in {None, Some(30 * S)},
        recline \in {None, Some(25 * S)},
        neck \in {None, Some("average")} }

\* What the narrative API answers
Reply(json, data) == [json |-> json, data |-> data]

ReplyWith(risk_score) ==
    Reply(TRUE, [risk_score |-> risk_score, confidence |-> 90 * S,
                 explanation |-> "x"])

NoReply == Reply(FALSE, [explanation |-> "x"])

ReplyScores ==
    {-50000, 0, 300000, 700000, 749000, 750000, 751000, 950000, 1150000,
     1151000, 1200000, 1300000}

\* The confidence of a reply: 0.5, 90, 150, -5
ReplyConfidences == {5000, 90 * S, 150 * S, -5 * S}

Replies ==
    {NoReply, Reply(TRUE, [confidence |-> 90 * S, explanation |-> "x"])}
    \cup { ReplyWith(x) : x \in {NaN, Inf, NegInf, Null} }
    \cup { ReplyWith(Float(v)) : v \in ReplyScores }
    \cup { Reply(TRUE, [risk_score |-> Float(500000), confidence |-> c,
                        explanation |-> "x"]) : c \in ReplyConfidences }

\* What the collaborators do during one request
Env(scraper, gemini, reply, save) ==
    [scraper |-> scraper, gemini |-> gemini, reply |-> reply, save |-> save]

HandlerEnvs ==
    { Env(sc, g, NoReply, sv) :
        sc \in {"ok", "error"},
        g \in {"not_configured", "call_error", "quota", "reply"},
        sv \in {"ok", "error"} }
    \cup { Env("ok", "reply", ReplyWith(Float(950000)), sv) :
             sv \in {"ok", "error"} }

AnalyzeEnvs ==
    { Env("ok", g, NoReply, "ok") :
        g \in {"not_configured", "call_error", "quota"} }
    \cup { Env("ok", "reply", r, "ok") : r \in Replies }

\* The baseline results handed to analyze_with_gemini: their risk score, or
\* none
BaselineResults ==
    { [risk_score_0_100 |-> b] : b \in {0, 500000, 950000, 997000, 1000000} }
    \cup { [HIC15 |-> 0] }

\* A request: method and rule under /api, whether it has a body, and the
\* JSON value of the body
Request(method, rule, body, json) ==
    [method |-> method, rule |-> rule, body |-> body, json |-> json]

JsonNull == [kind |-> "null", members |-> <<>>]

JsonObject(members) == [kind |-> "object", members |-> members]

RequestJsons ==
    {JsonNull, JsonObject(<<>>)}
    \cup { JsonObject([dummy_data |-> d]) : d \in DummyJsons }
    \cup { JsonObject([car_data |-> c, dummy_data |-> d]) :
             c \in CarJsons, d \in DummyJsons }

Requests ==
    { Request("POST", rule, "empty", JsonNull) :
        rule \in {"/evaluate-crash", "/crash-risk/calculate"} }
    \cup { Request("POST", rule, "json", j) :
             rule \in {"/evaluate-crash", "/crash-risk/calculate"},
             j \in RequestJsons }

\* The pairs of models that pass validation
ValidModels ==
    { [car_data |-> CarDataModel(c).value,
       dummy_data |-> DummyDataModel(d).value] :
        c \in { x \in CarJsons : CarDataModel(x).exc = "none" },
        d \in { x \in DummyJsons : DummyDataModel(x).exc = "none" } }

RequestCalls ==
    { [op |-> "request", request |-> r, env |-> e] :
        r \in Requests, e \in HandlerEnvs }

BaselineCalls ==
    { [op |-> "baseline_of_request", car_data |-> m.car_data,
       dummy_data |-> m.dummy_data] : m \in ValidModels }

\* Exceptions of an attempt: a message with "quota", with "Quota", with
\* "429", or with none of them
ErrorMessages == { ErrorMessage(q, c) : q \in BOOLEAN, c \in BOOLEAN }

\* What the narrative API does on each of up to three calls, and the reply
\* it gives when it answers
AttemptEnvs ==
    { [scraper |-> "ok", gemini |-> "attempts", attempts |-> a, reply |-> r,
       save |-> "ok"] :
        a \in [1..max_retries ->
                  {AttemptText} \cup { AttemptRaises(m) : m \in ErrorMessages }],
        r \in {ReplyWith(Float(700000)), NoReply} }

AnalyzeCalls ==
    { [op |-> "analyze_with_gemini", baseline_results |-> b, env |-> e] :
        b \in BaselineResults, e \in AnalyzeEnvs \cup AttemptEnvs }

\* ------------------------------------------------------------------------
\* models/simulationModel.py: SimulationResult.save
\* ------------------------------------------------------------------------

\* d.get(key, default)
dict_get(d, key, default) == IF key \in DOMAIN d THEN d[key] ELSE default

\* The "baseline" section of the document
baseline_section(baseline_results) ==
    [risk_score |-> dict_get(baseline_results, "risk_score_0_100", 0),
     HIC15 |-> dict_get(baseline_results, "HIC15", 0),
     Nij |-> dict_get(baseline_results, "Nij", 0),
     chest_A3ms_g |-> dict_get(baseline_results, "chest_A3ms_g", 0),
     thorax_deflection_mm |->
         dict_get(baseline_results,
                  "thorax_irtracc_max_deflection_proxy_mm", 0),
     femur_load_kN |-> dict_get(baseline_results, "femur_load_kN", 0),
     P_head |-> dict_get(baseline_results, "P_head", 0),
     P_neck |-> dict_get(baseline_results, "P_neck", 0),
     P_thorax |-> dict_get(baseline_results, "P_thorax_AIS3plus", 0),
     P_femur |-> dict_get(baseline_results, "P_femur", 0),
     P_baseline |-> dict_get(baseline_results, "P_baseline", 0),
     delta_v_mps |-> dict_get(baseline_results, "delta_v_mps", 0),
     peak_accel_g |-> dict_get(baseline_results, "peak_accel_g", 0)]

\* The document save prepares; gemini_analysis and scraped_context are None
\* or Some(value), and a value that is falsy is stored as None.
document_of(car_data, dummy_data, baseline_results, gemini_analysis, scraped_context) ==
    [timestamp |-> "utcnow",
     car_data |-> car_data,
     dummy_data |-> dummy_data,
     baseline |-> baseline_section(baseline_results),
     gemini_analysis |-> gemini_analysis,
     scraped_context |-> scraped_context,
     crash_configuration |->
         dict_get(baseline_results, "crash_configuration", "unknown"),
     occupant_gender |->
         dict_get(baseline_results, "occupant_gender", "unknown"),
     is_pregnant |-> dict_get(baseline_results, "is_pregnant", FALSE),
     final_risk_score |->
         IF gemini_analysis # None
         THEN dict_get(Get(gemini_analysis), "risk_score",
                       dict_get(baseline_results, "risk_score_0_100", 0))
         ELSE dict_get(baseline_results, "risk_score_0_100", 0)]

\* SimulationResult.save: the id it returns and the documents it has
\* inserted into the collection, or the exception of get_database or
\* insert_one (db = "error")
save(car_data, dummy_data, baseline_results, gemini_analysis, scraped_context, db) ==
    IF db # "ok"
    THEN [exc |-> "Exception", value |-> None, inserted |-> <<>>]
    ELSE [exc |-> "none", value |-> "inserted_id",
          inserted |-> <<document_of(car_data, dummy_data, baseline_results,
                                     gemini_analysis, scraped_context)>>]

\* Calls of save with the results of calculate_baseline_risk for the
\* inputs: speeds 0, 5, 13.89 and 25 m/s, from the front and from the left,
\* with and without a narrative analysis, the store reachable or not
SaveCalls ==
    { [op |-> "save",
       inputs |-> CrashInputs([impact_speed |-> v, vehicle_mass |-> 15000000,
                               crash_side |-> side]),
       car_data |-> [crash_side |-> side],
       dummy_data |-> [gender |-> "male"],
       gemini_analysis |-> g,
       scraped_context |-> None,
       db |-> d] :
        v \in {0, 50000, 138900, 250000}, side \in {"frontal", "left"},
        g \in {None, Some([risk_score |-> 700000, confidence |-> 9000])},
        d \in {"ok", "error"} }

InitApi ==
    /\ call \in RequestCalls \cup BaselineCalls \cup AnalyzeCalls
               \cup SaveCalls
    /\ ret = <<>>
    /\ kwargs = <<>>
    /\ inputs = <<>>
    /\ pc = "api"
    /\ delta_v = <<>>
    /\ pulse = <<>>
    /\ occ = <<>>
    /\ crit = <<>>
    /\ prob = <<>>
    /\ results = <<>>
    /\ prev = <<>>
    /\ evaluations = 0
    /\ tables = ModuleTables
    /\ other = <<>>
    /\ returned = <<>>
    /\ results_id = 0
    /\ cache = <<>>
    /\ now = 0
    /\ fetched = <<>>

\* The application answers the request
HandleRequest ==
    /\ call.op = "request"
    /\ ret = <<>>
    /\ ret' = <<full_dispatch_request(call.request, call.env)>>
    /\ UNCHANGED <<call, session_vars, tables, other, returned,
                   scraper_vars>>

\* The validated models are transformed and the calculator run on the
\* CrashInputs
CallBaseline ==
    /\ call.op = "baseline_of_request"
    /\ ret = <<>>
    /\ ret' = <<baseline_of_request(call.car_data, call.dummy_data)>>
    /\ UNCHANGED <<call, session_vars, tables, other, returned,
                   scraper_vars>>

\* analyze_with_gemini returns or raises
CallAnalyze ==
    /\ call.op = "analyze_with_gemini"
    /\ ret = <<>>
    /\ ret' = <<analyze_with_gemini(call.baseline_results, call.env)>>
    /\ UNCHANGED <<call, session_vars, tables, other, returned,
                   scraper_vars>>

\* save is called with the results calculate_baseline_risk returns for the
\* inputs
CallSave ==
    /\ call.op = "save"
    /\ ret = <<>>
    /\ \E baseline_results \in {calculate_baseline_risk(call.inputs)} :
           ret' = IF baseline_results.exc # "none"
                  THEN <<[exc |-> baseline_results.exc, value |-> None,
                          inserted |-> <<>>]>>
                  ELSE <<save(call.car_data, call.dummy_data,
                              baseline_results.value, call.gemini_analysis,
                              call.scraped_context, call.db)>>
    /\ UNCHANGED <<call, session_vars, tables, other, returned,
                   scraper_vars>>

NextApi ==
    \/ HandleRequest
    \/ CallBaseline
    \/ CallAnalyze
    \/ CallSave

SpecApi == InitApi /\ [][NextApi]_vars

\* ------------------------------------------------------------------------
\* scraper/cache.py, scraper/fetch.py: pages are fetched through a cache of
\* one JSON file per URL (named by the md5 digest of the URL; the URLs here
\* have different digests).  The cache directory exists.
\* ------------------------------------------------------------------------

\* CACHE_DURATION = timedelta(hours=24)
CACHE_DURATION == 24

\* No cache file
Absent == [kind |-> "absent"]

\* A cache file that json.load, or the lookup of its keys, fails on
Unreadable == [kind |-> "unreadable"]

\* The cache file that save_cached_html writes
Entry(timestamp, html) ==
    [kind |-> "entry", timestamp |-> timestamp, html |-> html]

\* get_cached_html with an entry kept for ever
get_cached_html_unexpired(files, url, t) ==
    IF files[url].kind = "absent" THEN None
    ELSE IF files[url].kind = "unreadable" THEN None
    ELSE Some(files[url].html)

\* get_cached_html(url) at time t: None, or Some(the html of the entry)
get_cached_html(files, url, t) ==
    IF files[url].kind = "absent" THEN None
    ELSE IF files[url].kind = "unreadable" THEN None
    ELSE IF t - files[url].timestamp > CACHE_DURATION THEN None
    ELSE Some(files[url].html)

\* What becomes of the write of save_cached_html: the file is written; open
\* fails and the file stays as it was; or open has truncated the file and
\* the dump fails.  Either exception is swallowed.
DiskOutcomes == {"written", "open_error", "dump_error"}

\* save_cached_html(url, html) at time t: the cache files after it
save_cached_html(files, url, html, t, disk) ==
    CASE disk = "written" -> [files EXCEPT ![url] = Entry(t, html)]
      [] disk = "open_error" -> files
      [] disk = "dump_error" -> [files EXCEPT ![url] = Unreadable]

\* fetch_html(url) at time t, the request (if one is made) ending as net and
\* the cache write (if one is made) as disk: what it returns, whether it made
\* a request, and the cache files after it.  `if cached_html:` is false for
\* None and for the empty string.
fetch_html(files, url, t, net, disk) ==
    LET cached_html == get_cached_html(files, url, t)
    IN  IF cached_html # None /\ Get(cached_html) # ""
        THEN [html |-> Get(cached_html), requested |-> FALSE,
              files |-> files]
        ELSE IF net.kind = "ok"
        THEN [html |-> net.html, requested |-> TRUE,
              files |-> save_cached_html(files, url, net.html, t, disk)]
        ELSE [html |-> "", requested |-> TRUE, files |-> files]

\* Calls of fetch_html in a run
MaxFetches == 3

\* The clock stops here, hours
MaxNow == 36

Urls == {"https://a.example/page", "https://b.example/page"}

\* response.text of a request that succeeds
Htmls == {"", "<html>a</html>"}

\* How client.get, raise_for_status and response.text end
NetOutcomes ==
    { [kind |-> "ok", html |-> h] : h \in Htmls }
    \cup { [kind |-> k] :
             k \in {"TimeoutException", "HTTPStatusError", "Exception"} }

InitScraper ==
    /\ cache = [u \in Urls |-> Absent]
    /\ now = 0
    /\ fetched = <<>>
    /\ call = <<>>
    /\ ret = <<>>
    /\ kwargs = <<>>
    /\ inputs = <<>>
    /\ pc = "scraper"
    /\ delta_v = <<>>
    /\ pulse = <<>>
    /\ occ = <<>>
    /\ crit = <<>>
    /\ prob = <<>>
    /\ results = <<>>
    /\ results_id = 0
    /\ prev = <<>>
    /\ evaluations = 0
    /\ tables = ModuleTables
    /\ other = <<>>
    /\ returned = <<>>

\* fetch_html(url) is called and returns
Fetch ==
    /\ pc = "scraper"
    /\ Len(fetched) < MaxFetches
    /\ \E url \in Urls, net \in NetOutcomes, disk \in DiskOutcomes :
           \E r \in {fetch_html(cache, url, now, net, disk)} :
               /\ cache' = r.files
               /\ fetched' =
                      Append(fetched,
                             [url |-> url,
                              at |-> now,
                              found |-> cache[url],
                              requested |-> r.requested,
                              net |-> IF r.requested THEN net.kind
                                      ELSE "none",
                              disk |-> IF r.requested /\ net.kind = "ok"
                                       THEN disk ELSE "none",
                              html |-> r.html,
                              left |-> r.files[url]])
    /\ UNCHANGED <<now, call, ret, session_vars, tables, other, returned>>

\* Twelve hours pass
Tick ==
    /\ pc = "scraper"
    /\ now < MaxNow
    /\ now' = now + 12
    /\ UNCHANGED <<cache, fetched, call, ret, session_vars, tables, other,
                   returned>>

NextScraper ==
    \/ Fetch
    \/ Tick

SpecScraper == InitScraper /\ [][NextScraper]_vars

\* ------------------------------------------------------------------------
\* Properties
\* ------------------------------------------------------------------------

\* calculate_all has returned
Done == pc = "done"

\* calculate_all has returned for a second CrashInputs
Compared == Done /\ Len(prev) = 1

\* The evaluation before this one
before == prev[1]

\* The two CrashInputs compared were constructed from arguments that differ
\* in field and in nothing else
DiffersOnlyIn(field) ==
    /\ Compared
    /\ kwargs[field] # before.kwargs[field]
    /\ [kwargs EXCEPT ![field] = before.kwargs[field]] = before.kwargs

ProbabilityKeys ==
    {"P_head", "P_neck", "P_thorax_AIS3plus", "P_chest_A3ms_diag",
     "P_femur_AIS2plus_proxy", "P_baseline"}

\* C1: every probability that calculate_all returns (P_head, P_neck,
\* P_thorax_AIS3plus, P_chest_A3ms_diag, P_femur_AIS2plus_proxy, P_baseline)
\* lies in [0, 1], and risk_score_0_100 lies in [0, 100].
C1_ProbabilityBounds ==
    Done =>
        /\ \A key \in ProbabilityKeys : results[key] >= 0 /\ results[key] <= P
        /\ results.risk_score_0_100 >= 0
        /\ results.risk_score_0_100 <= 100 * S

\* C1 at its edges: a saturated thorax probability of exactly 1 beside a head
\* probability of exactly 0, and a risk score of exactly 100.
C1_Witness ==
    /\ Done
    /\ results.P_thorax_AIS3plus = P
    /\ results.P_head = 0
    /\ results.risk_score_0_100 = 100 * S

\* C2: with impact_speed = 0 the overall risk score is 0 within rounding
\* (at most one step, 0.1, of the score's one decimal).
C2_ZeroSpeedZeroRisk ==
    (Done /\ inputs.impact_speed = 0) => results.risk_score_0_100 <= S \div 10

\* C2's case: calculate_all has returned for a crash at speed 0.
C2_Witness == Done /\ inputs.impact_speed = 0 /\ results.delta_v_mps = 0

\* C3: of two CrashInputs that differ only in impact_speed, the one with the
\* higher speed never has the lower overall risk score.
C3_RiskNonDecreasingInSpeed ==
    (DiffersOnlyIn("impact_speed")
        /\ kwargs.impact_speed > before.kwargs.impact_speed)
    => results.risk_score_0_100 >= before.results.risk_score_0_100

\* C3's case: a crash has been evaluated again at a higher speed, with a
\* higher delta-V.
C3_Witness ==
    /\ DiffersOnlyIn("impact_speed")
    /\ kwargs.impact_speed > before.kwargs.impact_speed
    /\ results.delta_v_mps > before.results.delta_v_mps

\* C4: of two CrashInputs that differ only in impact_speed, the one with the
\* higher speed and so the higher femur force has the higher femur
\* probability (compared before the rounding to four decimals).
C4_FemurRiskIncreasing ==
    (DiffersOnlyIn("impact_speed")
        /\ kwargs.impact_speed > before.kwargs.impact_speed
        /\ crit.femur_force_kN > before.crit.femur_force_kN)
    => prob.p_femur > before.prob.p_femur

\* C4's case: the higher speed has given the higher femur force.
C4_Witness ==
    /\ DiffersOnlyIn("impact_speed")
    /\ kwargs.impact_speed > before.kwargs.impact_speed
    /\ results.femur_load_kN > before.results.femur_load_kN

\* The relevant airbag of the crash evaluated is present
has_relevant_airbag == kwargs[relevant_airbag(kwargs.crash_side)]

\* C5: for fixed crash and occupant parameters the overall risk score is
\* ordered by restraint configuration, unbelted above belt only above belt
\* plus the relevant airbag.  The formula asks only that the order is never
\* reversed; the claim asks for more, that the scores also differ.
C5_RestraintOrdering ==
    /\ (DiffersOnlyIn("seatbelt_used") /\ ~has_relevant_airbag)
       => before.results.risk_score_0_100 >= results.risk_score_0_100
    /\ (DiffersOnlyIn(relevant_airbag(kwargs.crash_side))
           /\ kwargs.seatbelt_used)
       => before.results.risk_score_0_100 >= results.risk_score_0_100

\* C5's case: a belted occupant without the relevant airbag has been
\* evaluated again with it, and the transfer factor has dropped.
C5_Witness ==
    /\ DiffersOnlyIn(relevant_airbag(kwargs.crash_side))
    /\ kwargs.seatbelt_used
    /\ results.restraint_transfer_factor
           < before.results.restraint_transfer_factor

\* C6: switching seatbelt_pretensioner or seatbelt_load_limiter from absent
\* to present, all else fixed, never increases the overall risk score.
C6_PretensionerLimiterNeverIncrease ==
    (DiffersOnlyIn("seatbelt_pretensioner")
        \/ DiffersOnlyIn("seatbelt_load_limiter"))
    => results.risk_score_0_100 <= before.results.risk_score_0_100

\* C6's case: a load limiter has been added and has lowered the transfer
\* factor.
C6_Witness ==
    /\ DiffersOnlyIn("seatbelt_load_limiter")
    /\ kwargs.seatbelt_load_limiter
    /\ results.restraint_transfer_factor
           < before.results.restraint_transfer_factor

\* A call of op has returned
Returned(op) == call.op = op /\ Len(ret) = 1

\* The base transfer factor: 0.55 belted with the relevant airbag, 0.75
\* belted without it, 1.05 unbelted; the relevant airbag is the front one in
\* a frontal crash and the side one otherwise.
expected_base(inp) ==
    LET relevant == IF inp.crash_side = "frontal" THEN inp.front_airbag
                    ELSE inp.side_airbag
    IN  IF ~inp.seatbelt_used THEN 10500
        ELSE IF relevant THEN 5500 ELSE 7500

PregnancyFactors ==
    /\ inputs.torso_mass = Mul(before.inputs.torso_mass, 11500)
    /\ crit.chest_deflection_mm =
           Mul(compute_chest_deflection([inputs EXCEPT !.is_pregnant = FALSE],
                                        occ.a_occ_peak),
               11000)

\* C8 as the claim states it: of two CrashInputs identical except for
\* is_pregnant, the pregnant one has torso mass x 1.15, thorax deflection
\* x 1.1, and a strictly higher overall risk score.
C8_PregnancyStrictlyHigher ==
    (DiffersOnlyIn("is_pregnant") /\ kwargs.is_pregnant) =>
        /\ PregnancyFactors
        /\ results.risk_score_0_100 > before.results.risk_score_0_100

\* C8, amended: of two CrashInputs identical except for is_pregnant (and
\* without a torso_mass override), the pregnant one has torso mass x 1.15,
\* thorax deflection x 1.1 on top of the heavier torso, and an overall risk
\* score that is never lower.
C8_PregnancyNeverLower ==
    (DiffersOnlyIn("is_pregnant") /\ kwargs.is_pregnant) =>
        /\ PregnancyFactors
        /\ results.risk_score_0_100 >= before.results.risk_score_0_100

\* C8's case: the pregnant occupant has the larger deflection and the
\* strictly higher score.
C8_Witness ==
    /\ DiffersOnlyIn("is_pregnant")
    /\ kwargs.is_pregnant
    /\ crit.chest_deflection_mm > before.crit.chest_deflection_mm
    /\ results.risk_score_0_100 > before.results.risk_score_0_100

RECURSIVE product_none(_, _)
\* The product of (1 - p) over probs[i ..]
product_none(probs, i) ==
    IF i > Len(probs) THEN P
    ELSE MulP(P - probs[i], product_none(probs, i + 1))

C10_ClampsSaturate ==
    (Returned("risk") /\ call.criterion \in DOMAIN RISK_CURVES) =>
        LET params == RISK_CURVES[call.criterion]
            form == curve_form(params)
            m == call.m
            e == call.e
            r == ret[1]
        IN  /\ r.exc = "none"
            /\ r.value >= 0
            /\ r.value <= P
            /\ (form = "probit_lognormal" /\ m > 0) =>
                  /\ probit_z(params, m, e) > 8 * S => r.value = P
                  /\ probit_z(params, m, e) < -8 * S => r.value = 0
            /\ (form = "logistic") =>
                  /\ logistic_z(params, m, e) > 50 * S => r.value = P
                  /\ logistic_z(params, m, e) < -50 * S => r.value = 0
            /\ (form = "legacy") =>
                  /\ legacy_exponent(params, m, e) > 50 * S => r.value = 0
                  /\ legacy_exponent(params, m, e) < -50 * S => r.value = P

\* C10's case: a HIC15 of 1e6 puts the probit's z above 8, and the curve
\* returns exactly 1.
C10_Witness ==
    /\ Returned("risk")
    /\ call.criterion = "head_HIC15_AIS3plus_probit"
    /\ call.m > 0
    /\ probit_z(RISK_CURVES[call.criterion], call.m, call.e) > 8 * S
    /\ ret[1] = Return(P)

\* C11: evaluation is deterministic and has no hidden state: any two returns
\* of calculate_all for identical CrashInputs (a new calculator, or the same
\* calculator once more) are identical result records, whatever was
\* evaluated in between and by whichever thread.
C11_Deterministic ==
    \A i, j \in 1..Len(returned) :
        returned[i].inputs = returned[j].inputs
        => returned[i].results = returned[j].results

\* C11's case: the same CrashInputs have been evaluated twice, with an
\* evaluation of other CrashInputs returning in between.
C11_Witness ==
    /\ Len(returned) = 3
    /\ returned[1].inputs = returned[3].inputs
    /\ returned[2].inputs # returned[1].inputs
    /\ returned[1].results = returned[3].results

\* C12: no step of any evaluation writes the calibration tables, and under
\* every interleaving of the two threads an evaluation returns what
\* calculate_all returns for its CrashInputs when it runs alone.
C12_NoSharedMutableState ==
    /\ [][tables' = tables]_vars
    /\ [](Done => Return(results) = calculate_all(inputs))

\* C12's case: a thread's calculate_all has returned while the other thread
\* was between its steps, the tables as the module defines them.
C12_Witness ==
    /\ Done
    /\ tables = ModuleTables
    /\ Len(returned) = 1
    /\ other[1].pc = "step5"

\* The criteria calculate_all gives to _risk
Step6Criteria ==
    {"head_HIC15_AIS3plus_probit", "neck_Nij_AIS3plus",
     "thorax_irtracc_max_deflection_mm_AIS3plus", "chest_A3ms",
     "femur_force_kN_AIS2plus_proxy"}

\* The calibration table lacks a criterion that calculate_all asks for
curve_missing == Step6Criteria \ DOMAIN tables.RISK_CURVES # {}

\* C13: a lookup of a criterion that is not in the calibration table raises
\* (KeyError) and returns no default probability, and an evaluation in which
\* this happens is aborted: it never reaches step 7, assigns no results and
\* returns nothing.
C13_UnknownChannelAborts ==
    /\ curve_missing =>
          /\ pc \notin {"step7", "done"}
          /\ DOMAIN results = {}
          /\ returned = <<>>
    /\ pc = "raised" =>
          /\ curve_missing
          /\ calculate_all_prob(crit) = Raise("KeyError")
    /\ (curve_missing /\ pc = "step6") =>
          calculate_all_prob(crit) = Raise("KeyError")

\* C13's case: steps 1 to 5 have run, the first lookup of step 6 has
\* returned a probability and the lookup of the missing neck curve has
\* raised.
C13_Witness ==
    /\ pc = "raised"
    /\ "neck_Nij_AIS3plus" \notin DOMAIN tables.RISK_CURVES
    /\ DOMAIN crit # {}
    /\ risk("head_HIC15_AIS3plus_probit", crit.hic15).exc = "none"
    /\ DOMAIN results = {}

\* The derived masses of inp are positive and are occupant_mass times their
\* fraction, times 0.95 for a female head and 1.15 for a pregnant torso
DerivedMassesHold(inp) ==
    /\ inp.head_mass > 0
    /\ inp.torso_mass > 0
    /\ inp.leg_mass > 0
    /\ inp.head_mass = calculate_head_mass(inp.occupant_mass, inp.gender)
    /\ inp.torso_mass = calculate_torso_mass(inp.occupant_mass, inp.is_pregnant)
    /\ inp.leg_mass = calculate_leg_mass(inp.occupant_mass)

\* C15: whenever calculate_all reads them (step 5, and step 7 for the
\* results), the derived head, torso and leg masses are positive and equal
\* occupant_mass times their fraction and multipliers, however the
\* CrashInputs was constructed and used before the evaluation.
C15_DerivedMassesProportional ==
    pc \in {"step5", "step7"} => DerivedMassesHold(inputs)

\* C15's case: after the attribute assignments of Test 1.2 the evaluation is
\* about to read the masses, which are still those of the 75 kg male.
C15_Witness ==
    /\ pc = "step5"
    /\ kwargs.gender = "male"
    /\ inputs.gender = "female"
    /\ inputs.occupant_mass = 650000
    /\ inputs.head_mass = calculate_head_mass(750000, "male")

\* C16: the correlation factor of the results is the factor the combiner
\* used, for every input injury_correlation_factor.
C16_ExposedFactorIsUsedFactor ==
    Done => results.injury_correlation_factor
            = results.injury_combination_details.corr_factor_used

\* C16's case: an evaluation with injury_correlation_factor = 1.5 has
\* returned.
C16_Witness ==
    /\ Done
    /\ inputs.injury_correlation_factor = 15000
    /\ results.injury_combination_details.corr_factor_used = S

\* The request of the call was made to rule, and its body passed validation
ValidRequestTo(rule) ==
    /\ call.op = "request"
    /\ call.request.rule = rule
    /\ call.request.body = "json"
    /\ ~falsy(call.request.json)
    /\ validated(call.request.json).exc = "none"

\* The request of the call was made to rule, and has no JSON body or fails
\* validation
MalformedRequestTo(rule) ==
    /\ call.op = "request"
    /\ call.request.rule = rule
    /\ \/ call.request.body = "empty"
       \/ falsy(call.request.json)
       \/ validated(call.request.json).exc # "none"

\* C14: for every request that passes CarDataModel and DummyDataModel
\* validation, the transformation followed by calculate_baseline_risk
\* returns a result and raises nothing.
C14_ValidRequestCalculates ==
    Returned("baseline_of_request") => ret[1].exc = "none"

\* A validated request at impact speed 0 from the left, with nothing null in
\* it, has been transformed, and an AttributeError came out
C14_Witness ==
    /\ Returned("baseline_of_request")
    /\ call.car_data.impact_speed_kmh = 0
    /\ call.car_data.crash_side = "left"
    /\ call.car_data.intrusion_cm # None
    /\ call.dummy_data.neck_strength # None
    /\ call.dummy_data.seat_distance_from_wheel_cm # None
    /\ call.dummy_data.seat_recline_angle_deg # None
    /\ ret[1].exc = "AttributeError"

\* The narrative step of the call ended in an exception
NarrativeFailed ==
    \/ call.env.gemini \in {"not_configured", "call_error"}
    \/ /\ call.env.gemini = "reply"
       /\ parse_gemini_response(call.env.reply, 0).exc # "none"

C18_RejectedBeforeCore ==
    (Returned("request") /\ MalformedRequestTo("/evaluate-crash"))
    => ret[1].status = 400 /\ ret[1].invoked = {}

\* A request to evaluate-crash without a body has been answered, and one
\* with an impact speed of 999 km/h
C18_Witness ==
    /\ Returned("request")
    /\ call.request.rule = "/evaluate-crash"
    /\ \/ call.request.body = "empty" /\ ret[1].status = 500
       \/ /\ call.request.body = "json"
          /\ "car_data" \in DOMAIN call.request.json.members
          /\ call.request.json.members.car_data.impact_speed_kmh = 999 * S
          /\ ret[1].status = 400

\* The keys of the results of calculate_baseline_risk
ResultKeys ==
    DOMAIN calculate_baseline_risk(
               CrashInputs([impact_speed |-> 138900,
                            vehicle_mass |-> 15000000,
                            crash_side |-> "frontal"])).value

\* C19: POST /api/crash-risk/calculate with a payload that passes
\* validation returns status 200 with success true and a body that has
\* risk_score, injury_criteria and safe_for_production; every result key
\* format_response reads is one calculate_baseline_risk produces.
C19_CalculateEndpoint ==
    (Returned("request") /\ ValidRequestTo("/crash-risk/calculate"))
    => /\ ret[1].status = 200
       /\ ret[1].body.success
       /\ {"risk_score", "injury_criteria", "safe_for_production"}
              \subseteq DOMAIN ret[1].body
       /\ FormatResponseReads \subseteq ResultKeys

\* A valid payload with the keys the tests send has been posted to
\* /api/crash-risk/calculate and answered 404; the view calculate_crash_risk,
\* called on it, answers 500
C19_Witness ==
    /\ Returned("request")
    /\ ValidRequestTo("/crash-risk/calculate")
    /\ "seat_position" \in DOMAIN call.request.json.members.dummy_data
    /\ ret[1].status = 404
    /\ calculate_crash_risk(call.request).status = 500

\* C20: for every reply that parses, the risk score analyze_with_gemini
\* returns differs from the baseline risk_score_0_100 by at most 20 points;
\* a reply within that band is returned as it is, and one outside it is
\* clamped to the nearer edge of the band.
C20_NarrativeWithinBand ==
    (/\ Returned("analyze_with_gemini")
     /\ call.env.gemini = "reply"
     /\ ret[1].exc = "none")
    => LET b == baseline_risk_of(call.baseline_results)
           sent == call.env.reply.data.risk_score
           got == ret[1].value.risk_score
       IN  /\ got.k = "num"
           /\ Abs(got.v - b) <= MAX_DEVIATION
           /\ sent.k = "num" /\ Abs(sent.v - b) <= MAX_DEVIATION
                  => got = sent
           /\ float_gt(sent, b + MAX_DEVIATION)
                  => got.v = b + MAX_DEVIATION
           /\ float_lt(sent, b - MAX_DEVIATION)
                  => got.v = b - MAX_DEVIATION

\* A reply whose risk score is NaN has been parsed against a baseline of 95
C20_Witness ==
    /\ Returned("analyze_with_gemini")
    /\ call.env.gemini = "reply"
    /\ call.env.reply = ReplyWith(NaN)
    /\ call.baseline_results = [risk_score_0_100 |-> 950000]
    /\ ret[1].exc = "none"
    /\ ret[1].value.risk_score = NaN

\* C21: for every reply that parses, the result analyze_with_gemini returns
\* has a risk_score within 0..100 and a confidence within 0..1.
C21_NarrativeInRange ==
    (/\ Returned("analyze_with_gemini")
     /\ call.env.gemini = "reply"
     /\ ret[1].exc = "none")
    => /\ ret[1].value.risk_score.k = "num"
       /\ ret[1].value.risk_score.v >= 0
       /\ ret[1].value.risk_score.v <= 100 * S
       /\ ret[1].value.confidence >= 0
       /\ ret[1].value.confidence <= S

\* A reply with risk score 130 has been parsed against a baseline of 95,
\* and 115 returned
C21_Witness ==
    /\ Returned("analyze_with_gemini")
    /\ call.env.gemini = "reply"
    /\ call.env.reply = ReplyWith(Float(1300000))
    /\ call.baseline_results = [risk_score_0_100 |-> 950000]
    /\ ret[1].exc = "none"
    /\ ret[1].value.risk_score = Float(1150000)

\* The largest element of a finite non-empty set of numbers
SetMax(xs) == CHOOSE x \in xs : \A y \in xs : y <= x

\* The pairs of samples i < j of the occupant pulse whose time gap is
\* positive and at most 0.015 s
HicPairs ==
    { p \in (DOMAIN occ.a_occ_g) \X (DOMAIN occ.a_occ_g) :
        /\ p[1] < p[2]
        /\ pulse.time_array[p[2]] - pulse.time_array[p[1]] > 0
        /\ pulse.time_array[p[2]] - pulse.time_array[p[1]] <= HIC_WINDOW }

\* gap x (mean acceleration in g over the samples lo..hi) ^ 2.5
WindowScore(lo, hi, gap) == MulMs(pow25(mean(occ.a_occ_g, lo, hi)), gap)

\* C22 as stated: HIC15 is the maximum, over all pairs i < j with a time gap
\* of at most 0.015 s, of gap x (mean over the samples i..j) ^ 2.5, and 0
\* when no window scores above 0.
C22_HicInclusiveMean ==
    pc = "step6" =>
        crit.hic15 =
            SetMax({0} \cup
                   { WindowScore(p[1], p[2],
                                 pulse.time_array[p[2]]
                                 - pulse.time_array[p[1]]) : p \in HicPairs })

\* C22, amended: HIC15 is the maximum, over all pairs i < j with a time gap
\* of at most 0.015 s, of gap x (mean over the samples i..j-1, the sample at
\* j left out) ^ 2.5; every such pair is scored, no other pair contributes,
\* and it is 0 when no window scores above 0.
C22_HicMaximumOverWindows ==
    pc = "step6" =>
        crit.hic15 =
            SetMax({0} \cup
                   { WindowScore(p[1], p[2] - 1,
                                 pulse.time_array[p[2]]
                                 - pulse.time_array[p[1]]) : p \in HicPairs })

\* Step 5 has computed a positive HIC15 from a pulse that has pairs of
\* samples inside the window and pairs outside it
C22_Witness ==
    /\ pc = "step6"
    /\ crit.hic15 > 0
    /\ HicPairs # {}
    /\ \E i, j \in DOMAIN pulse.time_array :
           pulse.time_array[j] - pulse.time_array[i] > HIC_WINDOW

\* The variables of the loop of _compute_nij before its first pass
NijStart ==
    [x |-> 0,
     v |-> 0,
     nij_peak |-> 0,
     nij_peak_components |-> [Fz_N |-> 0, My_Nm |-> 0, mode |-> "unknown"],
     mode_counts |->
         [tension_flexion |-> 0, tension_extension |-> 0,
          compression_flexion |-> 0, compression_extension |-> 0]]

\* One pass of the loop over sample i of the occupant pulse, entered with st,
\* with the parameters that the details of step 5 report
NijPass(st, i) ==
    nij_step(st, occ.a_occ[i], crit.nij_details.dt_s,
             crit.nij_details.m_head_kg, crit.nij_details.k_neck_N_per_m,
             crit.nij_details.c_neck_Ns_per_m, crit.nij_details.lever_arm_m,
             crit.nij_details.recline_factor,
             crit.nij_details.strength_multiplier)

\* The variables of the loop after the passes over the samples 1..i
NijAfter(i) ==
    IF i = 0 THEN NijStart
    ELSE nij_loop(NijStart, occ.a_occ, 1, i, crit.nij_details.dt_s,
                  crit.nij_details.m_head_kg,
                  crit.nij_details.k_neck_N_per_m,
                  crit.nij_details.c_neck_Ns_per_m,
                  crit.nij_details.lever_arm_m,
                  crit.nij_details.recline_factor,
                  crit.nij_details.strength_multiplier)

\* The pass over sample i entered with no peak yet: its nij_peak is the
\* instantaneous Nij of the step and its nij_peak_components are the step's
\* Fz, My and loading mode
NijInstant(i) ==
    NijPass([NijAfter(i - 1) EXCEPT !.nij_peak = -1000000000], i)

\* The instantaneous Nij of every time step
NijSeries == [i \in DOMAIN occ.a_occ |-> NijInstant(i)]

\* C23: the Nij that _compute_nij returns is the maximum of the instantaneous
\* Nij over all time steps of the integration, and nij_peak_components holds
\* the Fz, My and loading mode of a step that attains it.
C23_NijPeakOfSeries ==
    pc = "step6" =>
        LET series == NijSeries
        IN  /\ crit.nij = SetMax({ series[i].nij_peak : i \in DOMAIN series })
            /\ \E i \in DOMAIN series :
                   /\ series[i].nij_peak = crit.nij
                   /\ series[i].nij_peak_components
                          = crit.nij_details.nij_peak_components

\* Step 5 has integrated a pulse of several samples; the largest
\* instantaneous Nij is the 0 of the first step, a tension_flexion step, and
\* the components reported are the placeholder with mode "unknown"
C23_Witness ==
    /\ pc = "step6"
    /\ Len(occ.a_occ) > 2
    /\ crit.nij = 0
    /\ NijInstant(1).nij_peak = 0
    /\ NijInstant(1).nij_peak_components.mode = "tension_flexion"
    /\ crit.nij_details.nij_peak_components.mode = "unknown"

\* In every evaluation of the pipeline the returned Nij is 0
NijAlwaysZero == pc = "step6" => crit.nij = 0

\* The first conjunct of C23 alone
NijIsMaximum ==
    pc = "step6" =>
        crit.nij = SetMax({ NijInstant(i).nij_peak : i \in DOMAIN occ.a_occ })

\* The number of time steps counted over the four loading modes
ModeCountSum(mode_counts) ==
    mode_counts.tension_flexion + mode_counts.tension_extension
    + mode_counts.compression_flexion + mode_counts.compression_extension

\* gamma x torso_mass x peak occupant acceleration / belt stiffness, times
\* 1.1 when pregnant, in mm
DeflectionWith(gamma, inp, a_occ_peak) ==
    LET x == Div(Mul(gamma, Mul(inp.torso_mass, a_occ_peak)),
                 DEFAULT_BELT_STIFFNESS)
    IN  IF inp.is_pregnant THEN Mul(x, 11000) ELSE x

\* A front airbag is present in a frontal crash
FrontalAirbag(inp) == inp.front_airbag /\ inp.crash_side = "frontal"

\* 1.3 below 0.15 m from the wheel, 1.2 above 0.50 m, 1 between
DistanceFactor(inp) ==
    IF inp.seat_distance_from_wheel < 1500 THEN 13000
    ELSE IF inp.seat_distance_from_wheel > 5000 THEN 12000
    ELSE S

\* C24 as stated: for every input gamma is 0.8, times 0.7 when a front
\* airbag is present in a frontal crash, times 1.3 when the seat is less
\* than 0.15 m from the wheel or times 1.2 when it is more than 0.50 m, and
\* the deflection is gamma x torso_mass x peak acceleration / belt
\* stiffness, times 1.1 when pregnant.
C24_DistanceFactorForEveryInput ==
    Returned("compute_chest_deflection") =>
        ret[1] = DeflectionWith(
                     Mul(IF FrontalAirbag(call.inputs) THEN 5600 ELSE 8000,
                         DistanceFactor(call.inputs)),
                     call.inputs, call.a_occ_peak)

\* C24, amended: gamma is 0.8 unless a front airbag is present in a frontal
\* crash; with one it is 0.8 x 0.7, times 1.3 when the seat is less than
\* 0.15 m from the wheel or times 1.2 when it is more than 0.50 m; the
\* deflection is gamma x torso_mass x peak acceleration / belt stiffness,
\* times 1.1 when pregnant.
C24_DistanceFactorUnderAirbag ==
    Returned("compute_chest_deflection") =>
        ret[1] = DeflectionWith(
                     IF FrontalAirbag(call.inputs)
                     THEN Mul(5600, DistanceFactor(call.inputs))
                     ELSE 8000,
                     call.inputs, call.a_occ_peak)

\* The deflection has been computed for a pregnant occupant seated 0.10 m
\* from the wheel behind a front airbag in a frontal crash: gamma is
\* 0.8 x 0.7 x 1.3
C24_Witness ==
    /\ Returned("compute_chest_deflection")
    /\ FrontalAirbag(call.inputs)
    /\ call.inputs.seat_distance_from_wheel = 1000
    /\ call.inputs.is_pregnant
    /\ call.a_occ_peak = 1000000
    /\ ret[1] = DeflectionWith(7280, call.inputs, 1000000)
    /\ ret[1] > 0

\* The deflection has been computed for a seat 0.10 m from the wheel with no
\* front airbag: gamma is 0.8, not 0.8 x 1.3
ChestNoAirbagClose ==
    /\ Returned("compute_chest_deflection")
    /\ ~call.inputs.front_airbag
    /\ call.inputs.seat_distance_from_wheel = 1000
    /\ call.a_occ_peak = 1000000
    /\ ret[1] = DeflectionWith(8000, call.inputs, 1000000)
    /\ ret[1] # DeflectionWith(10400, call.inputs, 1000000)

\* min(1.0, max(0.1, cf))
ClampedFactor(cf) == IF cf < 1000 THEN 1000 ELSE IF cf > S THEN S ELSE cf

\* C25: the combiner uses corr_factor clamped to [0.1, 1.0]; for every
\* corr_factor, also below 0.1 and above 1.0, and every list of
\* probabilities in [0, 1] the adjusted union is a probability that is at
\* most the independence union, and a call with the same probabilities and a
\* clamped factor at least as large returns a union at least as large.
C25_ClampedUnionBelowIndependence ==
    Returned("combine") =>
        LET details == ret[1][2]
        IN  /\ details.corr_factor_used = ClampedFactor(call.corr_factor)
            /\ details.p_any_corr_adjusted = ret[1][1]
            /\ details.p_any_corr_adjusted >= 0
            /\ details.p_any_corr_adjusted <= details.p_any_independence
            /\ \A cf \in UnitCorrFactors :
                   ClampedFactor(cf) >= ClampedFactor(call.corr_factor) =>
                       combine_injury_probabilities_correlated(
                           call.probabilities, cf)[1] >= ret[1][1]

\* The combiner has been given a corr_factor above 1.0 and one below 0.1
\* with probabilities strictly between 0 and 1; the union at the factor
\* below 0.1 is strictly below the independence union
C25_Witness ==
    /\ Returned("combine")
    /\ call.corr_factor < 1000
    /\ Len(call.probabilities) = 2
    /\ \A i \in 1..2 : call.probabilities[i] = P \div 2
    /\ ret[1][2].corr_factor_used = 1000
    /\ Abs(ret[1][2].p_any_independence - 3 * (P \div 4)) <= 100
    /\ ret[1][1] < ret[1][2].p_any_independence
    /\ ret[1][1] > 0
    /\ combine_injury_probabilities_correlated(call.probabilities, 15000)[1]
           = ret[1][2].p_any_independence

\* The positions of calculate_all before each of its steps
StepPositions ==
    {"step1", "step3", "step4", "step5", "step6", "step7"}

\* The interpreter has not switched threads in this step
SameThread == other'[1].kwargs = other[1].kwargs

\* C26: no step of calculate_all changes an attribute of its CrashInputs;
\* the step that assigns self.results builds a dict that no earlier call
\* returned, holding the record of this evaluation; and no step of any later
\* evaluation, by either thread, on a new or on the same calculator, changes
\* a dict that an earlier call returned.
C26_InputsAndEarlierRecordsUnchanged ==
    /\ [][(pc \in StepPositions /\ SameThread)
              => (inputs' = inputs /\ kwargs' = kwargs)]_vars
    /\ [][(pc = "step7" /\ pc' = "done" /\ SameThread)
              => /\ results_id' > Len(returned)
                 /\ results_id' = Len(returned')
                 /\ returned'[results_id'] =
                        [inputs |-> inputs, results |-> results']]_vars
    /\ [][/\ Len(returned') >= Len(returned)
          /\ \A i \in 1..Len(returned) : returned'[i] = returned[i]]_vars

\* calculate_all has run once more, up to its last step, on a calculator
\* whose self.results is the dict that its earlier call returned, and that
\* dict still holds what the earlier call returned
C26_Witness ==
    /\ pc = "step7"
    /\ results_id > 0
    /\ Len(returned) >= 2
    /\ returned[results_id].results = results
    /\ returned[results_id].inputs = inputs
    /\ Return(results) = calculate_all(inputs)

\* The call f of fetch_html made a request and the request succeeded
SuccessfulFetch(f) == f.requested /\ f.net = "ok"

\* The call f of fetch_html made a request and the request failed
FailedFetch(f) == f.requested /\ f.net # "ok"

\* The call f found an entry of its URL that was not older than 24 hours
FoundFresh(f) ==
    f.found.kind = "entry" /\ f.at - f.found.timestamp <= CACHE_DURATION

\* C27 as stated: after a successful fetch of a URL every fetch_html of that
\* URL within the next 24 hours returns the saved HTML without a network
\* request; an entry older than 24 hours or unreadable is a miss and is
\* refetched; a failed fetch returns the empty string and writes no cache
\* entry.
C27_CachedAfterEverySuccessfulFetch ==
    /\ \A i, j \in DOMAIN fetched :
           (/\ i < j
            /\ fetched[i].url = fetched[j].url
            /\ SuccessfulFetch(fetched[i])
            /\ fetched[j].at - fetched[i].at <= CACHE_DURATION)
           => (~fetched[j].requested /\ fetched[j].html = fetched[i].html)
    /\ \A j \in DOMAIN fetched :
           /\ (fetched[j].found.kind = "unreadable"
               \/ (fetched[j].found.kind = "entry" /\ ~FoundFresh(fetched[j])))
              => fetched[j].requested
           /\ FailedFetch(fetched[j])
              => (fetched[j].html = "" /\ fetched[j].left = fetched[j].found)

\* C27, amended: a fetch_html that finds an entry of its URL not older than
\* 24 hours with HTML that is not empty returns that HTML, makes no request
\* and leaves the cache alone; every other fetch_html (no entry, an entry
\* older than 24 hours, an unreadable one, one with empty HTML) makes a
\* request.  A successful request returns the page and, when the cache write
\* succeeds, leaves an entry with the page and the time of the fetch; a
\* failed request returns the empty string and leaves the cache as it was.
\* So after a successful fetch of a page that is not empty and whose cache
\* write succeeded, every fetch_html of that URL up to 24 hours later
\* returns the saved HTML without a request.
C27_CachedAfterSavedFetch ==
    /\ \A j \in DOMAIN fetched :
           LET f == fetched[j]
           IN  /\ (FoundFresh(f) /\ f.found.html # "")
                  => (~f.requested /\ f.html = f.found.html
                      /\ f.left = f.found)
               /\ ~(FoundFresh(f) /\ f.found.html # "") => f.requested
               /\ SuccessfulFetch(f) =>
                      (f.disk = "written" => f.left = Entry(f.at, f.html))
               /\ FailedFetch(f) => (f.html = "" /\ f.left = f.found)
    /\ \A i, j \in DOMAIN fetched :
           (/\ i < j
            /\ fetched[i].url = fetched[j].url
            /\ SuccessfulFetch(fetched[i])
            /\ fetched[i].html # ""
            /\ fetched[i].disk = "written"
            /\ fetched[j].at - fetched[i].at <= CACHE_DURATION)
           => (~fetched[j].requested /\ fetched[j].html = fetched[i].html)

\* A page has been fetched and saved, fetched again 24 hours later from the
\* cache without a request, and once more 12 hours after that, when the
\* entry had expired, with a request that failed
C27_Witness ==
    /\ Len(fetched) = 3
    /\ \A j \in 1..3 : fetched[j].url = fetched[1].url
    /\ SuccessfulFetch(fetched[1])
    /\ fetched[1].html = "<html>a</html>"
    /\ fetched[1].disk = "written"
    /\ fetched[2].at = fetched[1].at + CACHE_DURATION
    /\ ~fetched[2].requested
    /\ fetched[2].html = "<html>a</html>"
    /\ fetched[3].at = fetched[2].at + 12
    /\ FailedFetch(fetched[3])
    /\ fetched[3].html = ""
    /\ cache[fetched[1].url] = Entry(fetched[1].at, "<html>a</html>")

\* A page was fetched with success but its cache write failed, and the next
\* fetch_html of the URL, in the same hour, made a request again
RefetchedAfterWriteError ==
    /\ Len(fetched) >= 2
    /\ fetched[1].url = fetched[2].url
    /\ SuccessfulFetch(fetched[1])
    /\ fetched[1].disk # "written"
    /\ fetched[2].at = fetched[1].at
    /\ fetched[2].requested

\* An empty page was fetched and saved, and the next fetch_html of the URL,
\* in the same hour, made a request again
RefetchedEmptyPage ==
    /\ Len(fetched) >= 2
    /\ fetched[1].url = fetched[2].url
    /\ SuccessfulFetch(fetched[1])
    /\ fetched[1].disk = "written"
    /\ fetched[1].html = ""
    /\ fetched[2].at = fetched[1].at
    /\ fetched[2].found = Entry(fetched[1].at, "")
    /\ fetched[2].requested


\* The attempts analyze_with_gemini of the call went through: those up to
\* the first that is not a quota error, at most max_retries of them
AttemptsMade ==
    LET a == attempts_of(call.env)
        stops == { k \in 1..max_retries :
                     \/ a[k].kind = "text"
                     \/ ~is_quota_error(a[k].error_msg) }
    IN  IF stops = {} THEN max_retries
        ELSE CHOOSE k \in stops : \A j \in stops : k <= j

\* The waits before the second and the third attempt, in seconds
WaitsBefore(calls) ==
    CASE calls = 1 -> <<>>
      [] calls = 2 -> <<2>>
      [] OTHER -> <<2, 4>>

FallbackAfterThreeQuotaErrors ==
    /\ Returned("analyze_with_gemini")
    /\ call.env.gemini = "attempts"
    /\ \A k \in 1..3 : call.env.attempts[k].kind = "raise"
    /\ call.baseline_results = [risk_score_0_100 |-> 500000]
    /\ ret[1].calls = 3
    /\ ret[1].value.risk_score = Float(500000)
    /\ ret[1].value.confidence = 7000

\* An error that is no quota error ended the first attempt, and the call
\* raised after that one attempt although the next would have answered
RaisedAtOnce ==
    /\ Returned("analyze_with_gemini")
    /\ call.env.gemini = "attempts"
    /\ call.env.attempts[1] = AttemptRaises(ErrorMessage(FALSE, FALSE))
    /\ call.env.attempts[2] = AttemptText
    /\ ret[1].calls = 1
    /\ ret[1].exc = "Exception"


\* The details of the direct call of _compute_nij, once its loop has run
NijDetails == ret[1][2]

\* The loop of the direct call of _compute_nij has run over the samples
NijLoopReturned ==
    /\ Returned("compute_nij")
    /\ "mode_counts" \in DOMAIN NijDetails

\* C29: in an evaluation of Nij every time step is counted under exactly
\* one of the four loading modes, so that mode_counts sum to the number of
\* time samples; and with a lever arm above 0 and a recline angle of at
\* least 0 only tension_flexion and compression_extension are counted,
\* tension_extension and compression_flexion staying 0.
C29_EachStepInOneMode ==
    NijLoopReturned
    => /\ ModeCountSum(NijDetails.mode_counts) = Len(call.time_array)
       /\ \A mode \in DOMAIN NijDetails.mode_counts :
              NijDetails.mode_counts[mode] >= 0
       /\ (/\ NijDetails.lever_arm_m > 0
           /\ call.inputs.seat_recline_angle >= 0)
              => /\ NijDetails.mode_counts.tension_extension = 0
                 /\ NijDetails.mode_counts.compression_flexion = 0

\* An upright seat and a pulse that rests and then decelerates: of the
\* three steps the first is counted as tension_flexion and the others as
\* compression_extension
C29_Witness ==
    /\ NijLoopReturned
    /\ call.inputs.seat_recline_angle = 0
    /\ NijDetails.lever_arm_m > 0
    /\ call.a_occ = <<0, 500000, 500000>>
    /\ NijDetails.mode_counts.tension_flexion = 1
    /\ NijDetails.mode_counts.compression_extension = 2

\* With the seat reclined by -150 degrees the recline factor is negative
\* and steps are counted as compression_flexion
NegativeReclineCountsFlexion ==
    /\ NijLoopReturned
    /\ call.inputs.seat_recline_angle = -1500000
    /\ NijDetails.mode_counts.compression_flexion >= 1

\* No acceleration at all: Fz and My are 0 in every step, and every step is
\* counted as tension_flexion
RestCountsTensionFlexion ==
    /\ NijLoopReturned
    /\ call.a_occ = <<0, 0, 0>>
    /\ NijDetails.mode_counts.tension_flexion = 3


\* A call of save has returned the id of the document it inserted
SaveReturned ==
    /\ Returned("save")
    /\ ret[1].exc = "none"

\* The baseline section of the document inserted by the call of save
StoredBaseline == ret[1].inserted[1].baseline

\* What calculate_baseline_risk returned for the inputs of the call
CalculatorOutput == calculate_baseline_risk(call.inputs).value

\* C30: the baseline section of the record that SimulationResult.save
\* writes carries the calculator's values unchanged: for every result of
\* calculate_baseline_risk the stored risk_score, HIC15, Nij, thorax
\* deflection, femur load, P_head, P_neck, P_thorax, P_femur and P_baseline
\* equal the calculator's outputs.
C30_StoredBaselineIsCalculatorOutput ==
    SaveReturned
    => /\ StoredBaseline.risk_score = CalculatorOutput.risk_score_0_100
       /\ StoredBaseline.HIC15 = CalculatorOutput.HIC15
       /\ StoredBaseline.Nij = CalculatorOutput.Nij
       /\ StoredBaseline.thorax_deflection_mm =
              CalculatorOutput.thorax_irtracc_max_deflection_proxy_mm
       /\ StoredBaseline.femur_load_kN = CalculatorOutput.femur_load_kN
       /\ StoredBaseline.P_head = CalculatorOutput.P_head
       /\ StoredBaseline.P_neck = CalculatorOutput.P_neck
       /\ StoredBaseline.P_thorax = CalculatorOutput.P_thorax_AIS3plus
       /\ StoredBaseline.P_femur = CalculatorOutput.P_femur_AIS2plus_proxy
       /\ StoredBaseline.P_baseline = CalculatorOutput.P_baseline

\* The results of a frontal crash at 13.89 m/s have been saved: the
\* calculator's femur probability is above 0.9 and the stored P_femur is 0
C30_Witness ==
    /\ SaveReturned
    /\ call.inputs.impact_speed = 138900
    /\ call.inputs.crash_side = "frontal"
    /\ CalculatorOutput.P_femur_AIS2plus_proxy > 9000
    /\ StoredBaseline.P_femur = 0
    /\ StoredBaseline.risk_score = CalculatorOutput.risk_score_0_100

\* The stored fields other than P_femur are the calculator's outputs
StoredExceptFemur ==
    SaveReturned
    => /\ StoredBaseline.risk_score = CalculatorOutput.risk_score_0_100
       /\ StoredBaseline.HIC15 = CalculatorOutput.HIC15
       /\ StoredBaseline.Nij = CalculatorOutput.Nij
       /\ StoredBaseline.thorax_deflection_mm =
              CalculatorOutput.thorax_irtracc_max_deflection_proxy_mm
       /\ StoredBaseline.femur_load_kN = CalculatorOutput.femur_load_kN
       /\ StoredBaseline.P_head = CalculatorOutput.P_head
       /\ StoredBaseline.P_neck = CalculatorOutput.P_neck
       /\ StoredBaseline.P_thorax = CalculatorOutput.P_thorax_AIS3plus
       /\ StoredBaseline.P_baseline = CalculatorOutput.P_baseline

\* The stored P_femur is 0 whatever the calculator returned
StoredFemurIsDefault == SaveReturned => StoredBaseline.P_femur = 0

====
